---- MODULE Spec2Model ----
(***************************************************************************)
(* Scoring and scheduling engine of aws-reinvent-scheduler:                *)
(*   processor/session_scorer.py        SessionScorer                      *)
(*   scheduler/scheduling_algorithm.py  SchedulingAlgorithm                *)
(*   scheduler/backup_generator.py      BackupGenerator                    *)
(*   scheduler/conflict_resolver.py     ConflictResolver                   *)
(*   main.py                            process_sessions, validate_*       *)
(*                                                                         *)
(* Specifications.                                                         *)
(*   Spec        create_schedule on a list of scored sessions              *)
(*   ScorerSpec  score_sessions on a list of filtered sessions             *)
(*   WeightSpec  score_sessions by a scorer holding any of WeightTables    *)
(*                                                                         *)
(* Representation.                                                         *)
(*   - A time string is the sequence of its character codes ("09:45" is    *)
(*     <<48,57,58,52,53>>), so that Python's string ordering (used by the  *)
(*     sorts) and datetime.strptime(.., '%H:%M') (used by the overlap      *)
(*     tests) are two different functions of the same value.  An absent    *)
(*     time (None or '') is the empty sequence.                            *)
(*   - A score is an integer number of thousandths (scores are rounded to  *)
(*     three decimals by the scorer); a backup score is an integer number  *)
(*     of 1/60000, the common denominator of every term of                 *)
(*     _calculate_backup_score.                                            *)
(*   - A Python dict is a record [keys |-> insertion order, val |-> map].  *)
(***************************************************************************)
EXTENDS Integers, Sequences, FiniteSets, TLC

----------------------------------------------------------------------------
(* Python values and generic list operations                               *)

None == "None"

NoTime == <<>>

Truthy(s) == s # NoTime

Max(a, b) == IF a >= b THEN a ELSE b

Min(a, b) == IF a <= b THEN a ELSE b

Abs(a) == IF a >= 0 THEN a ELSE 0 - a

Range(seq) == {seq[i] : i \in DOMAIN seq}

Take(seq, n) == SubSeq(seq, 1, Min(n, Len(seq)))

RECURSIVE SelectIdx(_, _, _)
SelectIdx(seq, keep, i) ==
    IF i > Len(seq) THEN <<>>
    ELSE (IF i \in keep THEN <<seq[i]>> ELSE <<>>) \o SelectIdx(seq, keep, i + 1)

(* the sub-list of the elements whose index is in keep, in order *)
Filter(seq, keep) == SelectIdx(seq, keep, 1)

(* list.sort / sorted: a stable sort.  before[i, j] tells that the key of  *)
(* element i is strictly before the key of element j; an element goes      *)
(* after every element it is not before.  The result of StableOrder is the *)
(* list of the indices in sorted order.                                    *)
RECURSIVE StableOrder(_, _)
StableOrder(n, before) ==
    IF n = 0 THEN <<>>
    ELSE LET rest == StableOrder(n - 1, before)
             pos  == Cardinality({j \in DOMAIN rest : ~before[n, rest[j]]})
         IN  SubSeq(rest, 1, pos) \o <<n>> \o SubSeq(rest, pos + 1, Len(rest))

Sorted(seq, before) ==
    LET order == StableOrder(Len(seq), before)
    IN  [k \in DOMAIN seq |-> seq[order[k]]]

(* str < str in Python: lexicographic on the characters *)
RECURSIVE StrLessFrom(_, _, _)
StrLessFrom(a, b, i) ==
    IF i > Len(b) THEN FALSE
    ELSE IF i > Len(a) THEN TRUE
    ELSE IF a[i] # b[i] THEN a[i] < b[i]
    ELSE StrLessFrom(a, b, i + 1)

StrLess(a, b) == StrLessFrom(a, b, 1)

(* (str, str) < (str, str) in Python *)
PairLess(p, q) == StrLess(p[1], q[1]) \/ (p[1] = q[1] /\ StrLess(p[2], q[2]))

----------------------------------------------------------------------------
(* Time strings                                                            *)

Digit(d) == 48 + d

Colon == Digit(10)

IsDigit(c) == c \in Digit(0)..Digit(9)

(* f"{h:02d}:{m:02d}" *)
TimeStr(h, m) == <<Digit(h \div 10), Digit(h % 10), Colon, Digit(m \div 10), Digit(m % 10)>>

DigitsValue(s) ==
    IF Len(s) = 1 THEN s[1] - Digit(0) ELSE 10 * (s[1] - Digit(0)) + (s[2] - Digit(0))

(* datetime.strptime(s, '%H:%M') succeeds: H is 2[0-3]|[0-1]\d|\d, then    *)
(* ':', then M is [0-5]\d|\d, and nothing remains.                         *)
CanParse(s) ==
    \E p \in {2, 3} :
        /\ Len(s) \in {p + 1, p + 2}
        /\ s[p] = Colon
        /\ \A i \in DOMAIN s : i # p => IsDigit(s[i])
        /\ DigitsValue(SubSeq(s, 1, p - 1)) <= 23
        /\ DigitsValue(SubSeq(s, p + 1, Len(s))) <= 59

(* minutes since midnight of a string strptime accepts *)
Minutes(s) ==
    LET p == IF s[2] = Colon THEN 2 ELSE 3
    IN  60 * DigitsValue(SubSeq(s, 1, p - 1)) + DigitsValue(SubSeq(s, p + 1, Len(s)))

----------------------------------------------------------------------------
(* Configuration (config.py) and the constants of the components           *)

LUNCH_BREAK_START == TimeStr(11, 0)

LUNCH_BREAK_END == TimeStr(13, 0)

(* Config.BUFFER_MINUTES, read by SchedulingAlgorithm.__init__ *)
VARIABLE BUFFER_MINUTES

(* the shipped value and a larger one *)
BufferMinutesValues == {30, 45}

MIN_BACKUP_SESSIONS == 2

(* ConflictResolver.__init__: self.buffer_minutes *)
buffer_minutes == 30

(* BackupGenerator._times_are_compatible: the tolerance *)
flexibility_minutes == 30

(* a cap of min_backup_sessions alone *)
BackupCap_MinOnly == MIN_BACKUP_SESSIONS

(* generate_backups: ranked_backups[:max(self.min_backup_sessions, 3)] *)
BackupCap == Max(MIN_BACKUP_SESSIONS, 3)

(* the values MAX_SESSIONS_PER_DAY takes: the default '8' and an           *)
(* environment that sets it to 2                                           *)
MaxSessionsPerDayValues == {2, 8}

----------------------------------------------------------------------------
(* SchedulingAlgorithm: slots and primary sessions                         *)

(* session.get('score', 0): every modelled session carries its score *)
Score(session) == session.score

ScoreBefore(a, b) == Score(a) > Score(b)

(* sorted(sessions, key=score, reverse=True) *)
SortByScore(sessions) ==
    Sorted(sessions, [i, j \in DOMAIN sessions |-> ScoreBefore(sessions[i], sessions[j])])

(* a lunch test that looks at the start only *)
_is_lunch_time_StartOnly(start_time, end_time) ==
    IF CanParse(start_time) /\ CanParse(end_time)
    THEN Minutes(start_time) < Minutes(LUNCH_BREAK_END)
         /\ Minutes(start_time) >= Minutes(LUNCH_BREAK_START)
    ELSE FALSE

_is_lunch_time(start_time, end_time) ==
    IF CanParse(start_time) /\ CanParse(end_time)
    THEN Minutes(start_time) < Minutes(LUNCH_BREAK_END)
         /\ Minutes(end_time) > Minutes(LUNCH_BREAK_START)
    ELSE FALSE

(* an overlap test that sees containment only *)
_times_overlap_Containment(start1, end1, start2, end2) ==
    IF CanParse(start1) /\ CanParse(end1) /\ CanParse(start2) /\ CanParse(end2)
    THEN Minutes(start1) < Minutes(start2) /\ Minutes(end2) < Minutes(end1)
    ELSE FALSE

(* an overlap test that reports an overlap when a time does not parse *)
_times_overlap_FailClosed(start1, end1, start2, end2) ==
    IF CanParse(start1) /\ CanParse(end1) /\ CanParse(start2) /\ CanParse(end2)
    THEN Minutes(start1) < Minutes(end2) /\ Minutes(start2) < Minutes(end1)
    ELSE TRUE

_times_overlap(start1, end1, start2, end2) ==
    IF CanParse(start1) /\ CanParse(end1) /\ CanParse(start2) /\ CanParse(end2)
    THEN Minutes(start1) < Minutes(end2) /\ Minutes(start2) < Minutes(end1)
    ELSE FALSE

(* the (start, end) pairs of the sessions that have both, sorted *)
(* session times collected when either time is present *)
SessionTimes_Either(sessions) ==
    LET has   == {i \in DOMAIN sessions :
                     Truthy(sessions[i].start_time) \/ Truthy(sessions[i].end_time)}
        pairs == Filter([i \in DOMAIN sessions |->
                     <<sessions[i].start_time, sessions[i].end_time>>], has)
    IN  Sorted(pairs, [i, j \in DOMAIN pairs |-> PairLess(pairs[i], pairs[j])])

(* session times left in the order of the sessions, which is by score *)
SessionTimes_ScoreOrder(sessions) ==
    LET has == {i \in DOMAIN sessions :
                   Truthy(sessions[i].start_time) /\ Truthy(sessions[i].end_time)}
    IN  Filter([i \in DOMAIN sessions |->
                   <<sessions[i].start_time, sessions[i].end_time>>], has)

SessionTimes(sessions) ==
    LET has   == {i \in DOMAIN sessions :
                     Truthy(sessions[i].start_time) /\ Truthy(sessions[i].end_time)}
        pairs == Filter([i \in DOMAIN sessions |->
                     <<sessions[i].start_time, sessions[i].end_time>>], has)
    IN  Sorted(pairs, [i, j \in DOMAIN pairs |-> PairLess(pairs[i], pairs[j])])

SlotId(n) == <<"slot", n>>

NewSlot(n, start_time, end_time, date) ==
    [slot_id |-> SlotId(n), start_time |-> start_time, end_time |-> end_time,
     date |-> date, is_lunch_break |-> FALSE,
     buffer_before |-> BUFFER_MINUTES, buffer_after |-> BUFFER_MINUTES]

(* the loop over session_times: the slots accepted among the first n pairs *)
RECURSIVE AcceptSlots(_, _, _)
AcceptSlots(times, n, date) ==
    IF n = 0 THEN <<>>
    ELSE LET time_slots == AcceptSlots(times, n - 1, date)
             start_time == times[n][1]
             end_time   == times[n][2]
             conflicts_with_existing ==
                 \E k \in DOMAIN time_slots :
                     _times_overlap(start_time, end_time,
                                    time_slots[k].start_time, time_slots[k].end_time)
         IN  IF _is_lunch_time(start_time, end_time) THEN time_slots
             ELSE IF conflicts_with_existing THEN time_slots
             ELSE Append(time_slots,
                         NewSlot(Len(time_slots) + 1, start_time, end_time, date))

_generate_time_slots(sessions, date, max_per_day) ==
    LET times == SessionTimes(sessions)
    IN  Take(AcceptSlots(times, Len(times), date), max_per_day)

(* a choice that lets a later session of equal score win *)
BestSession_LastTie(sessions, slot, used_sessions) ==
    LET match == {i \in DOMAIN sessions :
                     /\ sessions[i].session_id \notin used_sessions
                     /\ sessions[i].start_time = slot.start_time
                     /\ sessions[i].end_time = slot.end_time
                     /\ sessions[i].score > -1000}
    IN  IF match = {} THEN 0
        ELSE CHOOSE i \in match :
                 \A j \in match :
                     \/ sessions[i].score > sessions[j].score
                     \/ (sessions[i].score = sessions[j].score /\ i >= j)

(* a choice that forgets used_sessions *)
BestSession_IgnoreUsed(sessions, slot, used_sessions) ==
    LET match == {i \in DOMAIN sessions :
                     /\ sessions[i].start_time = slot.start_time
                     /\ sessions[i].end_time = slot.end_time
                     /\ sessions[i].score > -1000}
    IN  IF match = {} THEN 0
        ELSE CHOOSE i \in match :
                 \A j \in match :
                     \/ sessions[i].score > sessions[j].score
                     \/ (sessions[i].score = sessions[j].score /\ i <= j)

(* a choice whose best_score starts at 0 *)
BestSession_ZeroFloor(sessions, slot, used_sessions) ==
    LET match == {i \in DOMAIN sessions :
                     /\ sessions[i].session_id \notin used_sessions
                     /\ sessions[i].start_time = slot.start_time
                     /\ sessions[i].end_time = slot.end_time
                     /\ sessions[i].score > 0}
    IN  IF match = {} THEN 0
        ELSE CHOOSE i \in match :
                 \A j \in match :
                     \/ sessions[i].score > sessions[j].score
                     \/ (sessions[i].score = sessions[j].score /\ i <= j)

(* the inner loop of _schedule_primary_sessions for one slot: the index of *)
(* best_session in sessions, 0 when it stays None; best_score starts at    *)
(* -1, which is -1000 thousandths                                          *)
BestSession(sessions, slot, used_sessions) ==
    LET match == {i \in DOMAIN sessions :
                     /\ sessions[i].session_id \notin used_sessions
                     /\ sessions[i].start_time = slot.start_time
                     /\ sessions[i].end_time = slot.end_time
                     /\ Score(sessions[i]) > -1000}
    IN  IF match = {} THEN 0
        ELSE CHOOSE i \in match :
                 \A j \in match :
                     \/ Score(sessions[i]) > Score(sessions[j])
                     \/ (Score(sessions[i]) = Score(sessions[j]) /\ i <= j)

ScheduledSession(session, slot) ==
    [session_id |-> session.session_id, date |-> session.date,
     start_time |-> session.start_time, end_time |-> session.end_time,
     score |-> session.score, venue |-> session.venue,
     keywords_matched |-> session.keywords_matched,
     time_slot |-> slot.slot_id,
     scheduled_start |-> slot.start_time, scheduled_end |-> slot.end_time]

(* the outer loop: [primary, used] after the first n slots *)
RECURSIVE PrimaryLoop(_, _, _)
PrimaryLoop(sessions, time_slots, n) ==
    IF n = 0 THEN [primary |-> <<>>, used |-> {}]
    ELSE LET before == PrimaryLoop(sessions, time_slots, n - 1)
             best   == BestSession(sessions, time_slots[n], before.used)
         IN  IF best = 0 THEN before
             ELSE [primary |-> Append(before.primary,
                                      ScheduledSession(sessions[best], time_slots[n])),
                   used    |-> before.used \cup {sessions[best].session_id}]

_schedule_primary_sessions(sessions, time_slots) ==
    PrimaryLoop(sessions, time_slots, Len(time_slots)).primary

----------------------------------------------------------------------------
(* Text (venue names, keywords): a sequence of one-character strings       *)

UpperCase == <<"A", "B", "C", "D", "E", "F", "G", "H", "I", "J", "K", "L", "M",
               "N", "O", "P", "Q", "R", "S", "T", "U", "V", "W", "X", "Y", "Z">>

LowerCase == <<"a", "b", "c", "d", "e", "f", "g", "h", "i", "j", "k", "l", "m",
               "n", "o", "p", "q", "r", "s", "t", "u", "v", "w", "x", "y", "z">>

LowerChar(c) ==
    IF \E k \in DOMAIN UpperCase : UpperCase[k] = c
    THEN LowerCase[CHOOSE k \in DOMAIN UpperCase : UpperCase[k] = c]
    ELSE c

(* str.lower() *)
Lower(text) == [i \in DOMAIN text |-> LowerChar(text[i])]

(* needle in text *)
Contains(text, needle) ==
    \E i \in 1..(Len(text) - Len(needle) + 1) :
        SubSeq(text, i, i + Len(needle) - 1) = needle

----------------------------------------------------------------------------
(* BackupGenerator                                                         *)
(* Backup scores are counted in units of 1/60000: 0.7 * score is           *)
(* 42 units per thousandth, a bonus of 0.02 is 1200 units, one minute of   *)
(* offset costs 0.1/60 = 100 units.                                        *)

BackupUnit == 60000

(* a tolerance that excludes an offset of exactly 30 minutes *)
_times_are_compatible_Strict(session_start, session_end, slot_start, slot_end) ==
    IF CanParse(session_start) /\ CanParse(session_end)
       /\ CanParse(slot_start) /\ CanParse(slot_end)
    THEN /\ Abs(Minutes(session_start) - Minutes(slot_start)) < flexibility_minutes
         /\ Abs(Minutes(session_end) - Minutes(slot_end)) < flexibility_minutes
    ELSE FALSE

_times_are_compatible(session_start, session_end, slot_start, slot_end) ==
    IF CanParse(session_start) /\ CanParse(session_end)
       /\ CanParse(slot_start) /\ CanParse(slot_end)
    THEN /\ Abs(Minutes(session_start) - Minutes(slot_start)) <= flexibility_minutes
         /\ Abs(Minutes(session_end) - Minutes(slot_end)) <= flexibility_minutes
    ELSE FALSE

_session_fits_slot(session, slot_start, slot_end) ==
    IF ~Truthy(session.start_time) \/ ~Truthy(session.end_time) THEN FALSE
    ELSE _times_are_compatible(session.start_time, session.end_time,
                               slot_start, slot_end)

(* the indices, in all_sessions, of the candidates of a slot *)
CandidateIdx(all_sessions, slot_start, slot_end, exclude_ids) ==
    {i \in DOMAIN all_sessions :
        /\ all_sessions[i].session_id \notin exclude_ids
        /\ _session_fits_slot(all_sessions[i], slot_start, slot_end)}

_find_candidate_sessions(all_sessions, slot_start, slot_end, exclude_ids) ==
    Filter(all_sessions, CandidateIdx(all_sessions, slot_start, slot_end, exclude_ids))

_calculate_time_compatibility_bonus(session, slot) ==
    IF ~Truthy(session.start_time) \/ ~Truthy(session.end_time) THEN 0
    ELSE IF CanParse(session.start_time) /\ CanParse(session.end_time)
            /\ CanParse(slot.start_time) /\ CanParse(slot.end_time)
    THEN LET start_diff  == Abs(Minutes(session.start_time) - Minutes(slot.start_time))
             end_diff    == Abs(Minutes(session.end_time) - Minutes(slot.end_time))
             max_bonus   == 12000
             start_bonus == Max(0, max_bonus - 100 * start_diff)
             end_bonus   == Max(0, max_bonus - 100 * end_diff)
         IN  (start_bonus + end_bonus) \div 2
    ELSE 0

high_value_keywords == {<<"a", "i">>, <<"a", "r", "c", "h", "i", "t", "e", "c", "t">>, <<"l", "a", "k", "e", "h", "o", "u", "s", "e">>, <<"d", "e", "v", "o", "p", "s">>}

_calculate_diversity_bonus(session) ==
    LET keywords         == session.keywords_matched
        keyword_bonus    == Min(6000, Len(keywords) * 1800)
        high_value_bonus == 1200 * Cardinality({i \in DOMAIN keywords :
                                Lower(keywords[i]) \in high_value_keywords})
    IN  Min(9000, keyword_bonus + high_value_bonus)

(* venue_scores of _calculate_venue_bonus, in the dict's order *)
venue_scores ==
    <<<<<<"v", "e", "n", "e", "t", "i", "a", "n">>, 6000>>,
       <<<<"p", "a", "l", "a", "z", "z", "o">>, 6000>>,
       <<<<"w", "y", "n", "n">>, 4800>>,
       <<<<"e", "n", "c", "o", "r", "e">>, 4800>>,
       <<<<"a", "r", "i", "a">>, 3600>>,
       <<<<"b", "e", "l", "l", "a", "g", "i", "o">>, 3600>>,
       <<<<"c", "a", "e", "s", "a", "r", "s">>, 2400>>,
       <<<<"m", "i", "r", "a", "g", "e">>, 2400>>>>

_calculate_venue_bonus(session) ==
    LET venue == Lower(session.venue)
        hits  == {k \in DOMAIN venue_scores : Contains(venue, venue_scores[k][1])}
    IN  IF hits = {} THEN 1200
        ELSE venue_scores[CHOOSE k \in hits : \A j \in hits : k <= j][2]

_calculate_backup_score(session, slot) ==
    LET base_score      == Score(session) * 42
        time_bonus      == _calculate_time_compatibility_bonus(session, slot)
        diversity_bonus == _calculate_diversity_bonus(session)
        venue_bonus     == _calculate_venue_bonus(session)
    IN  Min(BackupUnit, base_score + time_bonus + diversity_bonus + venue_bonus)

BackupCandidate(candidate, slot) ==
    [session_id |-> candidate.session_id, date |-> candidate.date,
     start_time |-> candidate.start_time, end_time |-> candidate.end_time,
     score |-> candidate.score, venue |-> candidate.venue,
     keywords_matched |-> candidate.keywords_matched,
     backup_score |-> _calculate_backup_score(candidate, slot)]

BackupScoreBefore(a, b) == a.backup_score > b.backup_score

(* a ranking that scores and does not sort *)
_rank_backup_candidates_Unsorted(candidates, slot) ==
    [i \in DOMAIN candidates |-> BackupCandidate(candidates[i], slot)]

_rank_backup_candidates(candidates, slot) ==
    LET scored_candidates ==
            [i \in DOMAIN candidates |-> BackupCandidate(candidates[i], slot)]
    IN  Sorted(scored_candidates,
               [i, j \in DOMAIN candidates |->
                   BackupScoreBefore(scored_candidates[i], scored_candidates[j])])

(* the body of the loop of generate_backups for one slot *)
SelectedBackups(all_sessions, primary_session_ids, slot) ==
    LET candidate_sessions ==
            _find_candidate_sessions(all_sessions, slot.start_time, slot.end_time,
                                     primary_session_ids)
        ranked_backups == _rank_backup_candidates(candidate_sessions, slot)
    IN  Take(ranked_backups, BackupCap)

(* a dict keyed by slot id, in the order the slots were inserted *)
generate_backups(all_sessions, primary_sessions, time_slots) ==
    LET primary_session_ids == {primary_sessions[i].session_id :
                                    i \in DOMAIN primary_sessions}
    IN  [keys |-> [k \in DOMAIN time_slots |-> time_slots[k].slot_id],
         val  |-> [id \in {time_slots[k].slot_id : k \in DOMAIN time_slots} |->
                     SelectedBackups(all_sessions, primary_session_ids,
                         time_slots[CHOOSE k \in DOMAIN time_slots :
                                        time_slots[k].slot_id = id])]]

----------------------------------------------------------------------------
(* ConflictResolver                                                        *)

(* a conflict test without the buffer *)
_sessions_conflict_NoBuffer(start1, end1, start2, end2) ==
    IF CanParse(start1) /\ CanParse(end1) /\ CanParse(start2) /\ CanParse(end2)
    THEN Minutes(start1) < Minutes(end2) /\ Minutes(start2) < Minutes(end1)
    ELSE FALSE

(* a buffered-overlap test that reports a conflict when a time does not    *)
(* parse                                                                   *)
_sessions_conflict_FailClosed(start1, end1, start2, end2) ==
    IF CanParse(start1) /\ CanParse(end1) /\ CanParse(start2) /\ CanParse(end2)
    THEN /\ Minutes(start1) < Minutes(end2) + buffer_minutes
         /\ Minutes(start2) < Minutes(end1) + buffer_minutes
    ELSE TRUE

_sessions_conflict(start1, end1, start2, end2) ==
    IF CanParse(start1) /\ CanParse(end1) /\ CanParse(start2) /\ CanParse(end2)
    THEN /\ Minutes(start1) < Minutes(end2) + buffer_minutes
         /\ Minutes(start2) < Minutes(end1) + buffer_minutes
    ELSE FALSE

(* _reschedule_session: logs and returns None *)
_reschedule_session(session, scheduled_sessions) == None

ScheduledStartBefore(a, b) == StrLess(a.scheduled_start, b.scheduled_start)

(* sorted(sessions, key=lambda x: x.get('scheduled_start', '00:00')) *)
SortByScheduledStart(list) ==
    Sorted(list, [i, j \in DOMAIN list |-> ScheduledStartBefore(list[i], list[j])])

(* the loop of _resolve_time_conflicts over the first n sorted sessions *)
RECURSIVE ResolveLoop(_, _)
ResolveLoop(sorted_sessions, n) ==
    IF n = 0 THEN <<>>
    ELSE LET resolved_sessions == ResolveLoop(sorted_sessions, n - 1)
             session == sorted_sessions[n]
             has_conflict ==
                 \E k \in DOMAIN resolved_sessions :
                     _sessions_conflict(session.scheduled_start, session.scheduled_end,
                                        resolved_sessions[k].scheduled_start,
                                        resolved_sessions[k].scheduled_end)
         IN  IF ~Truthy(session.scheduled_start) \/ ~Truthy(session.scheduled_end)
             THEN Append(resolved_sessions, session)
             ELSE IF ~has_conflict THEN Append(resolved_sessions, session)
             ELSE IF _reschedule_session(session, resolved_sessions) # None
             THEN Append(resolved_sessions,
                         _reschedule_session(session, resolved_sessions))
             ELSE resolved_sessions

(* a scan that tests a session against every session sorted before it,    *)
(* kept or dropped                                                         *)
_resolve_time_conflicts_AllEarlier(sessions) ==
    LET sorted_sessions == SortByScheduledStart(sessions)
    IN  Filter(sorted_sessions,
               {n \in DOMAIN sorted_sessions :
                   ~\E k \in 1..(n - 1) :
                       _sessions_conflict(sorted_sessions[n].scheduled_start,
                                          sorted_sessions[n].scheduled_end,
                                          sorted_sessions[k].scheduled_start,
                                          sorted_sessions[k].scheduled_end)})

_resolve_time_conflicts(sessions) ==
    IF sessions = <<>> THEN sessions
    ELSE LET sorted_sessions == SortByScheduledStart(sessions)
         IN  ResolveLoop(sorted_sessions, Len(sorted_sessions))

(* primary times that leave out the first primary session of the day *)
PrimaryTimes_SkipFirst(primary_sessions) ==
    LET rest == IF primary_sessions = <<>> THEN <<>> ELSE Tail(primary_sessions)
    IN  [i \in DOMAIN rest |-> <<rest[i].scheduled_start, rest[i].scheduled_end>>]

(* the (scheduled_start, scheduled_end) of the primary sessions having both *)
PrimaryTimes(primary_sessions) ==
    Filter([i \in DOMAIN primary_sessions |->
               <<primary_sessions[i].scheduled_start, primary_sessions[i].scheduled_end>>],
           {i \in DOMAIN primary_sessions :
               /\ Truthy(primary_sessions[i].scheduled_start)
               /\ Truthy(primary_sessions[i].scheduled_end)})

(* a validation that removes from the list it is iterating: the element    *)
(* after a removed one is skipped                                          *)
RECURSIVE RemoveWhileIterating(_, _, _)
RemoveWhileIterating(primary_times, backups, i) ==
    IF i > Len(backups) THEN backups
    ELSE IF \/ ~Truthy(backups[i].start_time)
            \/ ~Truthy(backups[i].end_time)
            \/ \E k \in DOMAIN primary_times :
                   _sessions_conflict(backups[i].start_time, backups[i].end_time,
                                      primary_times[k][1], primary_times[k][2])
    THEN RemoveWhileIterating(primary_times,
                              Filter(backups, DOMAIN backups \ {i}), i + 1)
    ELSE RemoveWhileIterating(primary_times, backups, i + 1)

ValidatedSlotBackups_RemoveWhileIterating(primary_times, backups) ==
    RemoveWhileIterating(primary_times, backups, 1)

(* a validation that keeps every backup *)
ValidatedSlotBackups_KeepAll(primary_times, backups) == backups

(* the backups of one slot that _validate_backup_sessions keeps *)
ValidatedSlotBackups(primary_times, backups) ==
    Filter(backups,
           {i \in DOMAIN backups :
               /\ Truthy(backups[i].start_time)
               /\ Truthy(backups[i].end_time)
               /\ ~\E k \in DOMAIN primary_times :
                      _sessions_conflict(backups[i].start_time, backups[i].end_time,
                                         primary_times[k][1], primary_times[k][2])})

_validate_backup_sessions(primary_sessions, backup_sessions) ==
    LET primary_times == PrimaryTimes(primary_sessions)
    IN  [keys |-> backup_sessions.keys,
         val  |-> [id \in DOMAIN backup_sessions.val |->
                      ValidatedSlotBackups(primary_times, backup_sessions.val[id])]]

(* a venue step that gives up the last session of the day *)
_reduce_venue_transitions_DropLast(primary_sessions, backup_sessions) ==
    Take(primary_sessions, Len(primary_sessions) - 1)

_reduce_venue_transitions(primary_sessions, backup_sessions) == primary_sessions

(* the (from_venue, to_venue) of the consecutive sessions that change venue *)
_calculate_venue_transitions(sessions) ==
    Filter([i \in 1..(Len(sessions) - 1) |->
               [from_venue |-> sessions[i].venue, to_venue |-> sessions[i + 1].venue]],
           {i \in 1..(Len(sessions) - 1) : sessions[i].venue # sessions[i + 1].venue})

_optimize_venue_proximity(primary_sessions, backup_sessions) ==
    LET sorted_primary    == SortByScheduledStart(primary_sessions)
        optimized_primary == _reduce_venue_transitions(sorted_primary, backup_sessions)
    IN  [primary |-> optimized_primary,
         backups |-> backup_sessions,
         conflicts_resolved |->
             [venue_transitions    |-> _calculate_venue_transitions(sorted_primary),
              optimization_applied |-> Len(optimized_primary) # Len(sorted_primary)]]

(* a resolver that moves a dropped primary session to the backups of its   *)
(* slot                                                                    *)
resolve_conflicts_Demote(primary_sessions, backup_sessions, time_slots) ==
    LET resolved_primary  == _resolve_time_conflicts(primary_sessions)
        validated_backups == _validate_backup_sessions(resolved_primary, backup_sessions)
        demoted(id) == Filter(primary_sessions,
                              {n \in DOMAIN primary_sessions :
                                  /\ primary_sessions[n].time_slot = id
                                  /\ primary_sessions[n] \notin Range(resolved_primary)})
    IN  _optimize_venue_proximity(resolved_primary,
            [keys |-> validated_backups.keys,
             val  |-> [id \in DOMAIN validated_backups.val |->
                          validated_backups.val[id] \o demoted(id)]])

resolve_conflicts(primary_sessions, backup_sessions, time_slots) ==
    LET resolved_primary  == _resolve_time_conflicts(primary_sessions)
        validated_backups == _validate_backup_sessions(resolved_primary, backup_sessions)
    IN  _optimize_venue_proximity(resolved_primary, validated_backups)

----------------------------------------------------------------------------
(* SchedulingAlgorithm: the daily schedule                                 *)

RECURSIVE SumLen(_, _)
SumLen(dict, n) ==
    IF n = 0 THEN 0 ELSE SumLen(dict, n - 1) + Len(dict.val[dict.keys[n]])

_calculate_daily_statistics(all_sessions, primary_sessions, backup_sessions) ==
    [total_sessions     |-> Len(all_sessions),
     scheduled_sessions |-> Len(primary_sessions),
     backup_sessions    |-> SumLen(backup_sessions, Len(backup_sessions.keys))]

blocked_times == <<<<LUNCH_BREAK_START, LUNCH_BREAK_END>>>>

----------------------------------------------------------------------------
(* SessionScorer (processor/session_scorer.py)                             *)
(* Component scores and weights are integer thousandths, so a weighted     *)
(* component is an integer number of millionths.  A text field that is     *)
(* None or '' is the empty sequence.                                       *)

(* round(num / den), halves to the even neighbour as Python's round does;  *)
(* num >= 0, den > 0                                                       *)
RoundHalfEven(num, den) ==
    LET q == num \div den
        r == num % den
    IN  IF 2 * r < den THEN q
        ELSE IF 2 * r > den THEN q + 1
        ELSE IF q % 2 = 0 THEN q ELSE q + 1

(* self.scoring_weights as __init__ sets it *)
InitialScoringWeights ==
    [keyword_relevance  |-> 400,
     session_level      |-> 200,
     venue_convenience  |-> 200,
     speaker_reputation |-> 100,
     session_uniqueness |-> 100]

(* the tables of __init__ and of the scoring methods, in the order of the  *)
(* source                                                                  *)
venue_convenience_scores ==
    <<<<<<"v", "e", "n", "e", "t", "i", "a", "n">>, 900>>,
      <<<<"p", "a", "l", "a", "z", "z", "o">>, 900>>,
      <<<<"w", "y", "n", "n">>, 800>>,
      <<<<"e", "n", "c", "o", "r", "e">>, 800>>,
      <<<<"a", "r", "i", "a">>, 700>>,
      <<<<"b", "e", "l", "l", "a", "g", "i", "o">>, 700>>,
      <<<<"c", "a", "e", "s", "a", "r", "s">>, 600>>,
      <<<<"m", "i", "r", "a", "g", "e">>, 600>>,
      <<<<"t", "r", "e", "a", "s", "u", "r", "e", " ", "i", "s", "l", "a", "n", "d">>, 500>>,
      <<<<"f", "l", "a", "m", "i", "n", "g", "o">>, 500>>,
      <<<<"l", "i", "n", "q">>, 400>>,
      <<<<"p", "a", "r", "i", "s">>, 400>>,
      <<<<"b", "a", "l", "l", "y">>, 300>>,
      <<<<"h", "a", "r", "r", "a", "h">>, 300>>,
      <<<<"r", "i", "o">>, 200>>,
      <<<<"o", "r", "l", "e", "a", "n", "s">>, 200>>,
      <<<<"m", "g", "m", " ", "g", "r", "a", "n", "d">>, 0>>,
      <<<<"m", "a", "n", "d", "a", "l", "a", "y", " ", "b", "a", "y">>, 0>>>>

level_scores ==
    <<<<<<"b", "e", "g", "i", "n", "n", "e", "r">>, 600>>,
      <<<<"i", "n", "t", "e", "r", "m", "e", "d", "i", "a", "t", "e">>, 1000>>,
      <<<<"a", "d", "v", "a", "n", "c", "e", "d">>, 800>>,
      <<<<"e", "x", "p", "e", "r", "t">>, 700>>>>

unique_indicators ==
    <<<<"n", "e", "w">>,
      <<"p", "r", "e", "v", "i", "e", "w">>,
      <<"a", "n", "n", "o", "u", "n", "c", "e", "m", "e", "n", "t">>,
      <<"l", "a", "u", "n", "c", "h">>,
      <<"e", "x", "c", "l", "u", "s", "i", "v", "e">>,
      <<"d", "e", "e", "p", " ", "d", "i", "v", "e">>,
      <<"h", "a", "n", "d", "s", "-", "o", "n">>,
      <<"w", "o", "r", "k", "s", "h", "o", "p">>,
      <<"l", "a", "b">>,
      <<"d", "e", "m", "o">>,
      <<"c", "a", "s", "e", " ", "s", "t", "u", "d", "y">>,
      <<"r", "e", "a", "l", "-", "w", "o", "r", "l", "d">>,
      <<"p", "r", "o", "d", "u", "c", "t", "i", "o", "n">>,
      <<"s", "c", "a", "l", "e">>>>

aws_indicators ==
    {<<"a", "w", "s">>,
     <<"a", "m", "a", "z", "o", "n">>,
     <<"p", "r", "i", "n", "c", "i", "p", "a", "l">>,
     <<"s", "e", "n", "i", "o", "r">>}

_score_keyword_relevance(session) ==
    LET matched_keywords == session.keywords_matched
        match_bonus      == Min(300, Len(matched_keywords) * 100)
        title            == Lower(session.title)
        title_bonus      == Min(200, 100 * Cardinality({i \in DOMAIN matched_keywords :
                                Contains(title, matched_keywords[i])}))
    IN  IF matched_keywords = <<>> THEN 0
        ELSE Min(1000, 500 + match_bonus + title_bonus)

_score_session_level(session) ==
    LET level == Lower(session.level)
        hits  == {k \in DOMAIN level_scores : level_scores[k][1] = level}
    IN  IF level = <<>> \/ hits = {} THEN 500
        ELSE level_scores[CHOOSE k \in hits : TRUE][2]

(* the loop of best_score = max(best_score, score) from best_score = 0.5 *)
RECURSIVE BestVenueScore(_, _)
BestVenueScore(venue, n) ==
    IF n = 0 THEN 500
    ELSE LET best_score == BestVenueScore(venue, n - 1)
         IN  IF Contains(venue, venue_convenience_scores[n][1])
             THEN Max(best_score, venue_convenience_scores[n][2])
             ELSE best_score

_score_venue_convenience(session) ==
    LET venue == Lower(session.venue)
    IN  IF venue = <<>> THEN 500
        ELSE BestVenueScore(venue, Len(venue_convenience_scores))

_score_speaker_reputation(session) ==
    LET speakers            == session.speakers
        speaker_count_bonus == Min(300, Len(speakers) * 100)
        aws_bonus           == Min(200, 100 * Cardinality({i \in DOMAIN speakers :
                                   \E indicator \in aws_indicators :
                                       Contains(Lower(speakers[i]), indicator)}))
    IN  IF speakers = <<>> THEN 500
        ELSE Min(1000, 500 + speaker_count_bonus + aws_bonus)

(* 0.5 plus 0.1 per indicator found in the title, 0.05 per indicator found *)
(* in the description only                                                 *)
UniquenessSum(session) ==
    LET title       == Lower(session.title)
        description == Lower(session.description)
        in_title    == {k \in DOMAIN unique_indicators : Contains(title, unique_indicators[k])}
        in_descr    == {k \in DOMAIN unique_indicators :
                           k \notin in_title /\ Contains(description, unique_indicators[k])}
    IN  500 + 100 * Cardinality(in_title) + 50 * Cardinality(in_descr)

(* a uniqueness score that is not capped at 1.0 *)
_score_session_uniqueness_NoCap(session) == UniquenessSum(session)

_score_session_uniqueness(session) == Min(1000, UniquenessSum(session))

_calculate_session_score(session, weights) ==
    LET scores == [keyword_score    |-> _score_keyword_relevance(session),
                   level_score      |-> _score_session_level(session),
                   venue_score      |-> _score_venue_convenience(session),
                   speaker_score    |-> _score_speaker_reputation(session),
                   uniqueness_score |-> _score_session_uniqueness(session)]
        total_score == scores.keyword_score * weights.keyword_relevance
                       + scores.level_score * weights.session_level
                       + scores.venue_score * weights.venue_convenience
                       + scores.speaker_score * weights.speaker_reputation
                       + scores.uniqueness_score * weights.session_uniqueness
    IN  [total_score      |-> RoundHalfEven(total_score, 1000),
         component_scores |-> scores,
         weights_used     |-> weights]

(* each session copied with its score and breakdown, then the list sorted  *)
(* by score, highest first                                                 *)
score_sessions(sessions, weights) ==
    LET scored == [i \in DOMAIN sessions |->
                      LET score_breakdown == _calculate_session_score(sessions[i], weights)
                      IN  [title            |-> sessions[i].title,
                           description      |-> sessions[i].description,
                           level            |-> sessions[i].level,
                           venue            |-> sessions[i].venue,
                           speakers         |-> sessions[i].speakers,
                           keywords_matched |-> sessions[i].keywords_matched,
                           score            |-> score_breakdown.total_score,
                           score_breakdown  |-> score_breakdown]]
    IN  SortByScore(scored)

----------------------------------------------------------------------------
(* Inputs of create_schedule                                               *)

NewSession(session_id, date, times, score, venue, keywords_matched) ==
    [session_id |-> session_id, date |-> date,
     start_time |-> times[1], end_time |-> times[2],
     score |-> score, venue |-> venue, keywords_matched |-> keywords_matched]

Dec01 == "2025-12-01"

Dec02 == "2025-12-02"

(* a date outside the conference *)
Nov30 == "2025-11-30"

Venetian == <<"V", "e", "n", "e", "t", "i", "a", "n">>

Mirage == <<"M", "i", "r", "a", "g", "e">>

CaesarsForum == <<"C", "a", "e", "s", "a", "r", "s", " ", "F", "o", "r", "u", "m">>

KwAI == <<"A", "I">>

KwTrino == <<"T", "r", "i", "n", "o">>

SessionIds == <<"S1", "S2", "S3", "S4", "S5", "S6", "S7", "S8">>

(* the sessions of a list numbered by position: pairwise distinct ids *)
WithIds(shapes) == [i \in DOMAIN shapes |-> [shapes[i] EXCEPT !.session_id = SessionIds[i]]]

SeqsUpTo(S, n) == UNION {[1..k -> S] : k \in 0..n}

MaxSessions == 3

MaxRanked == 5

MaxIdSessions == 3

MaxDateSessions == 3

(* time ranges: before lunch, next to lunch, in lunch, after lunch, one    *)
(* that ends before it starts, one of no length                            *)
TimeRanges ==
    {<<TimeStr(9, 0), TimeStr(9, 45)>>, <<TimeStr(9, 0), TimeStr(10, 0)>>,
     <<TimeStr(10, 0), TimeStr(11, 0)>>, <<TimeStr(10, 15), TimeStr(11, 15)>>,
     <<TimeStr(11, 0), TimeStr(12, 0)>>, <<TimeStr(14, 0), TimeStr(15, 0)>>,
     <<TimeStr(15, 0), TimeStr(14, 0)>>, <<TimeStr(16, 0), TimeStr(16, 0)>>}

TimePool == {NewSession(None, Dec01, r, 700, Venetian, <<>>) : r \in TimeRanges}

(* one day, any time ranges, both values of MAX_SESSIONS_PER_DAY *)
TimeInputs ==
    {[sessions |-> WithIds(l), conference_dates |-> <<Dec01>>, max_sessions_per_day |-> m,
      BUFFER_MINUTES |-> 30] :
        l \in SeqsUpTo(TimePool, MaxSessions), m \in MaxSessionsPerDayValues}

RankedPool ==
    {NewSession(None, Dec01, <<TimeStr(9, 0), TimeStr(9, 45)>>, 800, Venetian, <<>>),
     NewSession(None, Dec01, <<TimeStr(10, 0), TimeStr(11, 0)>>, 900, Venetian, <<KwAI>>),
     NewSession(None, Dec01, <<TimeStr(10, 15), TimeStr(11, 0)>>, 700, Mirage, <<KwAI, KwTrino>>),
     NewSession(None, Dec01, <<TimeStr(10, 30), TimeStr(11, 0)>>, 800, CaesarsForum, <<>>)}

(* one day, up to MaxRanked sessions around one slot: more candidates than *)
(* the backup pool keeps                                                   *)
RankedInputs ==
    {[sessions |-> WithIds(l), conference_dates |-> <<Dec01>>, max_sessions_per_day |-> 8,
      BUFFER_MINUTES |-> 30] :
        l \in SeqsUpTo(RankedPool, MaxRanked)}

IdPool ==
    {NewSession(id, Dec01, r, sc, Venetian, <<>>) :
        id \in {None, "S1"},
        r \in {<<TimeStr(9, 0), TimeStr(10, 0)>>, <<TimeStr(14, 0), TimeStr(15, 0)>>},
        sc \in {600, 800}}

(* one day, sessions that share an id or have none *)
IdInputs ==
    {[sessions |-> l, conference_dates |-> <<Dec01>>, max_sessions_per_day |-> 8,
      BUFFER_MINUTES |-> 30] :
        l \in SeqsUpTo(IdPool, MaxIdSessions)}

DatePool ==
    {NewSession(None, Dec01, <<TimeStr(9, 0), TimeStr(10, 0)>>, 700, Venetian, <<>>),
     NewSession(None, Dec02, <<TimeStr(9, 0), TimeStr(10, 0)>>, 700, Venetian, <<>>),
     NewSession(None, Dec02, <<TimeStr(14, 0), TimeStr(15, 0)>>, 800, Mirage, <<>>),
     NewSession(None, Nov30, <<TimeStr(9, 0), TimeStr(10, 0)>>, 900, Venetian, <<>>)}

(* two conference dates in either order, sessions of both and of neither *)
DateInputs ==
    {[sessions |-> WithIds(l), conference_dates |-> d, max_sessions_per_day |-> 8,
      BUFFER_MINUTES |-> 30] :
        l \in SeqsUpTo(DatePool, MaxDateSessions),
        d \in {<<Dec01, Dec02>>, <<Dec02, Dec01>>}}

MaxFaulty == 2

(* a start that strptime rejects, an end that strptime rejects, a missing  *)
(* start                                                                   *)
FaultyPool ==
    {NewSession(None, Dec01, r, 700, Venetian, <<>>) :
        r \in {<<TimeStr(25, 0), TimeStr(26, 0)>>, <<TimeStr(9, 30), TimeStr(24, 30)>>,
               <<NoTime, TimeStr(10, 0)>>}}

(* nothing, one session, and two slots within the buffer of each other     *)
(* with a backup of the second that is clear of the first                  *)
SoundLists ==
    {<<>>,
     <<NewSession(None, Dec01, <<TimeStr(9, 0), TimeStr(10, 0)>>, 700, Venetian, <<>>)>>,
     <<NewSession(None, Dec01, <<TimeStr(9, 0), TimeStr(10, 0)>>, 700, Venetian, <<>>),
       NewSession(None, Dec01, <<TimeStr(10, 15), TimeStr(11, 0)>>, 700, Venetian, <<>>),
       NewSession(None, Dec01, <<TimeStr(10, 30), TimeStr(11, 0)>>, 700, Venetian, <<>>)>>}

(* one day, up to MaxFaulty sessions with malformed or missing times       *)
(* before or after the others                                              *)
FaultyInputs ==
    {[sessions |-> WithIds(l), conference_dates |-> <<Dec01>>, max_sessions_per_day |-> 8,
      BUFFER_MINUTES |-> 30] :
        l \in {b \o x : b \in SoundLists, x \in SeqsUpTo(FaultyPool, MaxFaulty)}
              \cup {x \o b : b \in SoundLists, x \in SeqsUpTo(FaultyPool, MaxFaulty)}}

MaxBufferSessions == 2

(* 40 minutes and 10 minutes after the end of the first *)
BufferPool ==
    {NewSession(None, Dec01, r, 700, Venetian, <<>>) :
        r \in {<<TimeStr(14, 0), TimeStr(15, 0)>>, <<TimeStr(15, 40), TimeStr(16, 40)>>,
               <<TimeStr(15, 10), TimeStr(16, 10)>>}}

(* one day, each value of Config.BUFFER_MINUTES *)
BufferInputs ==
    {[sessions |-> WithIds(l), conference_dates |-> <<Dec01>>, max_sessions_per_day |-> 8,
      BUFFER_MINUTES |-> b] :
        l \in SeqsUpTo(BufferPool, MaxBufferSessions), b \in BufferMinutesValues}

MaxChain == 3

(* three afternoon sessions 15 minutes apart: each is within the buffer of *)
(* the next and the first is clear of the third; the middle one scores     *)
(* highest, the first has the score 0                                      *)
ChainPool ==
    {NewSession(None, Dec01, <<TimeStr(14, 0), TimeStr(14, 30)>>, 0, Venetian, <<>>),
     NewSession(None, Dec01, <<TimeStr(14, 45), TimeStr(15, 15)>>, 900, Venetian, <<>>),
     NewSession(None, Dec01, <<TimeStr(15, 30), TimeStr(16, 0)>>, 700, Venetian, <<>>)}

(* one day, a chain of slots that conflict pairwise through the buffer     *)
ChainInputs ==
    {[sessions |-> WithIds(l), conference_dates |-> <<Dec01>>, max_sessions_per_day |-> 8,
      BUFFER_MINUTES |-> 30] :
        l \in SeqsUpTo(ChainPool, MaxChain)}

MaxFaultyId == 3

(* sessions without an id and with one, at a sound range and at one whose  *)
(* times strptime rejects                                                  *)
FaultyIdPool ==
    {NewSession(None, Dec01, <<TimeStr(9, 0), TimeStr(10, 0)>>, 700, Venetian, <<>>),
     NewSession(None, Dec01, <<TimeStr(25, 0), TimeStr(26, 0)>>, 700, Venetian, <<>>),
     NewSession("S1", Dec01, <<TimeStr(25, 0), TimeStr(26, 0)>>, 800, Venetian, <<>>),
     NewSession("S2", Dec01, <<TimeStr(14, 0), TimeStr(15, 0)>>, 700, Venetian, <<>>)}

(* one day, malformed times with shared, absent and distinct ids, both     *)
(* values of MAX_SESSIONS_PER_DAY                                          *)
FaultyIdInputs ==
    {[sessions |-> l, conference_dates |-> <<Dec01>>, max_sessions_per_day |-> m,
      BUFFER_MINUTES |-> 30] :
        l \in SeqsUpTo(FaultyIdPool, MaxFaultyId), m \in MaxSessionsPerDayValues}

Inputs ==
    TimeInputs \cup RankedInputs \cup IdInputs \cup DateInputs \cup FaultyInputs
    \cup BufferInputs \cup ChainInputs \cup FaultyIdInputs

----------------------------------------------------------------------------
(* create_schedule as a state machine                                      *)

VARIABLES
    sessions,              \* argument: the scored sessions
    conference_dates,      \* argument
    max_sessions_per_day,  \* Config.MAX_SESSIONS_PER_DAY
    pc,                    \* the position in create_schedule / _create_daily_schedule
    idx,                   \* the position of the loop over conference_dates
    sessions_by_date,      \* local of create_schedule
    schedule,              \* the dict being built, keys in insertion order
    sorted_sessions,       \* locals of _create_daily_schedule
    time_slots,
    primary_sessions,
    backup_sessions,
    resolved_schedule,
    venue_filtered,        \* main.py: the argument of score_sessions
    scoring_weights,       \* SessionScorer.scoring_weights
    scored_sessions        \* main.py: the result of score_sessions

vars == <<sessions, conference_dates, max_sessions_per_day, BUFFER_MINUTES, pc, idx,
          sessions_by_date, schedule, sorted_sessions, time_slots, primary_sessions,
          backup_sessions, resolved_schedule, venue_filtered, scoring_weights,
          scored_sessions>>

inputs == <<sessions, conference_dates, max_sessions_per_day, BUFFER_MINUTES>>

scorer == <<venue_filtered, scoring_weights, scored_sessions>>

locals == <<sorted_sessions, time_slots, primary_sessions, backup_sessions,
            resolved_schedule>>

EmptyDict == [keys |-> <<>>, val |-> <<>>]

(* d[k] = v *)
DictSet(d, k, v) ==
    [keys |-> IF k \in Range(d.keys) THEN d.keys ELSE Append(d.keys, k),
     val  |-> [x \in Range(d.keys) \cup {k} |-> IF x = k THEN v ELSE d.val[x]]]

(* a grouping that does not look at the date of a session *)
_group_sessions_by_date_All(all, dates) == [date \in Range(dates) |-> all]

_group_sessions_by_date(all, dates) ==
    [date \in Range(dates) |-> Filter(all, {i \in DOMAIN all : all[i].date = date})]

Init ==
    /\ \E in \in Inputs :
        /\ sessions = in.sessions
        /\ conference_dates = in.conference_dates
        /\ max_sessions_per_day = in.max_sessions_per_day
        /\ BUFFER_MINUTES = in.BUFFER_MINUTES
    /\ pc = "create_schedule"
    /\ idx = 1
    /\ sessions_by_date = <<>>
    /\ schedule = EmptyDict
    /\ sorted_sessions = <<>>
    /\ time_slots = <<>>
    /\ primary_sessions = <<>>
    /\ backup_sessions = EmptyDict
    /\ resolved_schedule = [primary |-> <<>>, backups |-> EmptyDict]
    /\ venue_filtered = <<>>
    /\ scoring_weights = InitialScoringWeights
    /\ scored_sessions = <<>>

(* the date of the current iteration *)
date == conference_dates[idx]

daily_sessions == sessions_by_date[date]

GroupSessions ==
    /\ pc = "create_schedule"
    /\ sessions_by_date' = _group_sessions_by_date(sessions, conference_dates)
    /\ pc' = "for_date"
    /\ UNCHANGED <<inputs, scorer, idx, schedule, locals>>

(* a day without sessions that is skipped: no entry *)
EmptyDay_Skip ==
    /\ pc = "for_date"
    /\ idx <= Len(conference_dates)
    /\ daily_sessions = <<>>
    /\ idx' = idx + 1
    /\ UNCHANGED <<inputs, scorer, pc, sessions_by_date, schedule, locals>>

(* if not daily_sessions: the literal empty entry, with a list for the     *)
(* backups and no time_slots                                               *)
EmptyDay ==
    /\ pc = "for_date"
    /\ idx <= Len(conference_dates)
    /\ daily_sessions = <<>>
    /\ schedule' = DictSet(schedule, date,
           [primary_sessions |-> <<>>,
            backup_sessions  |-> [items |-> <<>>],
            blocked_times    |-> blocked_times,
            statistics       |-> [total_sessions |-> 0, scheduled_sessions |-> 0,
                                  backup_sessions |-> 0]])
    /\ idx' = idx + 1
    /\ UNCHANGED <<inputs, scorer, pc, sessions_by_date, locals>>

(* _create_daily_schedule: the sort and _generate_time_slots *)
GenerateTimeSlots ==
    /\ pc = "for_date"
    /\ idx <= Len(conference_dates)
    /\ daily_sessions # <<>>
    /\ sorted_sessions' = SortByScore(daily_sessions)
    /\ time_slots' = _generate_time_slots(sorted_sessions', date, max_sessions_per_day)
    /\ pc' = "primary"
    /\ UNCHANGED <<inputs, scorer, idx, sessions_by_date, schedule, primary_sessions,
                   backup_sessions, resolved_schedule>>

SchedulePrimary ==
    /\ pc = "primary"
    /\ primary_sessions' = _schedule_primary_sessions(sorted_sessions, time_slots)
    /\ pc' = "backups"
    /\ UNCHANGED <<inputs, scorer, idx, sessions_by_date, schedule, sorted_sessions, time_slots,
                   backup_sessions, resolved_schedule>>

GenerateBackups ==
    /\ pc = "backups"
    /\ backup_sessions' = generate_backups(sorted_sessions, primary_sessions, time_slots)
    /\ pc' = "resolve"
    /\ UNCHANGED <<inputs, scorer, idx, sessions_by_date, schedule, sorted_sessions, time_slots,
                   primary_sessions, resolved_schedule>>

ResolveConflicts ==
    /\ pc = "resolve"
    /\ resolved_schedule' = resolve_conflicts(primary_sessions, backup_sessions, time_slots)
    /\ pc' = "statistics"
    /\ UNCHANGED <<inputs, scorer, idx, sessions_by_date, schedule, sorted_sessions, time_slots,
                   primary_sessions, backup_sessions>>

(* the statistics, the returned dict and schedule[date] = daily_schedule *)
StoreDaily ==
    /\ pc = "statistics"
    /\ schedule' = DictSet(schedule, date,
           [primary_sessions |-> resolved_schedule.primary,
            backup_sessions  |-> resolved_schedule.backups,
            blocked_times    |-> blocked_times,
            time_slots       |-> time_slots,
            statistics       |-> _calculate_daily_statistics(daily_sessions,
                                     resolved_schedule.primary,
                                     resolved_schedule.backups)])
    /\ idx' = idx + 1
    /\ pc' = "for_date"
    /\ UNCHANGED <<inputs, scorer, sessions_by_date, locals>>

RECURSIVE SumStat(_, _, _)
SumStat(sched, n, stat) ==
    IF n = 0 THEN 0
    ELSE SumStat(sched, n - 1, stat) + sched.val[sched.keys[n]].statistics[stat]

(* round(total_sessions / (len(schedule) - 1) if len(schedule) > 1 else 0, *)
(* 1), in tenths; len(schedule) counts the entries of the dict it is given *)
schedule_efficiency(total_sessions, len_schedule) ==
    IF len_schedule > 1 THEN RoundHalfEven(10 * total_sessions, len_schedule - 1) ELSE 0

_generate_schedule_summary(sched) ==
    [total_conference_days    |-> Len(sched.keys),
     total_scheduled_sessions |-> SumStat(sched, Len(sched.keys), "scheduled_sessions"),
     total_backup_sessions    |-> SumStat(sched, Len(sched.keys), "backup_sessions"),
     schedule_efficiency      |-> schedule_efficiency(
                                      SumStat(sched, Len(sched.keys), "scheduled_sessions"),
                                      Len(sched.keys))]

(* schedule['summary'] = ...; return schedule *)
Summarize ==
    /\ pc = "for_date"
    /\ idx > Len(conference_dates)
    /\ schedule' = DictSet(schedule, "summary", _generate_schedule_summary(schedule))
    /\ pc' = "done"
    /\ UNCHANGED <<inputs, scorer, idx, sessions_by_date, locals>>

Next ==
    \/ GroupSessions
    \/ EmptyDay
    \/ GenerateTimeSlots
    \/ SchedulePrimary
    \/ GenerateBackups
    \/ ResolveConflicts
    \/ StoreDaily
    \/ Summarize

Spec == Init /\ [][Next]_vars

----------------------------------------------------------------------------
(* main.py process_sessions: scorer.score_sessions(venue_filtered)         *)

NewUnscored(title, description, level, venue, speakers, keywords_matched) ==
    [title |-> title, description |-> description, level |-> level, venue |-> venue,
     speakers |-> speakers, keywords_matched |-> keywords_matched]

(* keyword lists as KeywordFilter writes them (lower case): none, one,     *)
(* more than the three that count                                          *)

KeywordLists ==
    {<<>>,
     <<<<"a", "i">>>>,
     <<<<"a", "i">>, <<"t", "r", "i", "n", "o">>, <<"e", "t", "l">>, <<"d", "e", "v", "o", "p", "s">>>>}

(* titles: no indicator, two, more than the cap needs *)
Titles ==
    {<<"K", "e", "y", "n", "o", "t", "e">>,
     <<"A", "I", " ", "l", "a", "b", " ", "o", "n", " ", "T", "r", "i", "n", "o">>,
     <<"N", "e", "w", " ", "T", "r", "i", "n", "o", " ", "A", "I", " ", "l", "a", "b", ":", " ", "l", "a", "u", "n", "c", "h", " ", "d", "e", "m", "o", " ", "p", "r", "e", "v", "i", "e", "w", " ", "a", "t", " ", "s", "c", "a", "l", "e">>}

Descriptions ==
    {<<>>,
     <<"A", " ", "h", "a", "n", "d", "s", "-", "o", "n", " ", "w", "o", "r", "k", "s", "h", "o", "p">>}

(* levels: none, a known one, an unknown one *)
Levels ==
    {<<>>,
     <<"I", "n", "t", "e", "r", "m", "e", "d", "i", "a", "t", "e">>,
     <<"G", "u", "r", "u">>}

(* venues: none, convenient, excluded, below neutral, two entries, unknown *)
Venues ==
    {<<>>,
     <<"V", "e", "n", "e", "t", "i", "a", "n">>,
     <<"M", "G", "M", " ", "G", "r", "a", "n", "d">>,
     <<"L", "i", "n", "q">>,
     <<"R", "i", "o", " ", "a", "t", " ", "W", "y", "n", "n">>,
     <<"H", "i", "l", "t", "o", "n">>}

SpeakerLists ==
    {<<>>,
     <<<<"A", "n", "n", " ", "L", "e", "e">>>>,
     <<<<"A", "n", "n", " ", "L", "e", "e", ",", " ", "A", "W", "S">>, <<"B", "o", " ", "C", "h", "e", "n", ",", " ", "S", "e", "n", "i", "o", "r", " ", "S", "A">>, <<"C", "y", " ", "D", "i", "a", "z", ",", " ", "P", "r", "i", "n", "c", "i", "p", "a", "l">>, <<"D", "i", " ", "E", "n", "g">>>>}

ScorerPool ==
    {NewUnscored(t, d, l, v, sp, kw) :
        t \in Titles, d \in Descriptions, l \in Levels, v \in Venues,
        sp \in SpeakerLists, kw \in KeywordLists}

(* sessions whose scores differ and tie, for the sort *)
SortPool ==
    {NewUnscored(t, <<>>, <<>>, v, <<>>, <<>>) :
        t \in Titles, v \in {<<"V", "e", "n", "e", "t", "i", "a", "n">>, <<>>}}

MaxScored == 2

ScorerInputs == {<<s>> : s \in ScorerPool} \cup SeqsUpTo(SortPool, MaxScored)

(* the pipeline of create_schedule is not running *)
SchedulerIdle ==
    /\ sessions = <<>>
    /\ conference_dates = <<>>
    /\ max_sessions_per_day = 8
    /\ BUFFER_MINUTES = 30
    /\ idx = 1
    /\ sessions_by_date = <<>>
    /\ schedule = EmptyDict
    /\ sorted_sessions = <<>>
    /\ time_slots = <<>>
    /\ primary_sessions = <<>>
    /\ backup_sessions = EmptyDict
    /\ resolved_schedule = [primary |-> <<>>, backups |-> EmptyDict]

(* scorer = SessionScorer() *)
ScorerInit ==
    /\ SchedulerIdle
    /\ pc = "score_sessions"
    /\ venue_filtered \in ScorerInputs
    /\ scoring_weights = InitialScoringWeights
    /\ scored_sessions = <<>>

(* scored_sessions = scorer.score_sessions(venue_filtered) *)
ScoreSessions ==
    /\ pc = "score_sessions"
    /\ scored_sessions' = score_sessions(venue_filtered, scoring_weights)
    /\ pc' = "scored"
    /\ UNCHANGED <<inputs, idx, sessions_by_date, schedule, locals, venue_filtered,
                   scoring_weights>>

ScorerNext == ScoreSessions

ScorerSpec == ScorerInit /\ [][ScorerNext]_vars

(* sum(self.scoring_weights.values()) *)
SumWeights(weights) ==
    weights.keyword_relevance + weights.session_level + weights.venue_convenience
    + weights.speaker_reputation + weights.session_uniqueness

(* the table of __init__ and two edits of it that sum to 1.1 and to 0.9 *)
WeightTables ==
    {InitialScoringWeights,
     [InitialScoringWeights EXCEPT !.keyword_relevance = 500],
     [InitialScoringWeights EXCEPT !.session_level = 100]}

(* a scorer whose __init__ holds any of the tables; __init__ has no other  *)
(* statement                                                               *)
WeightInit ==
    /\ SchedulerIdle
    /\ pc = "score_sessions"
    /\ venue_filtered \in ScorerInputs
    /\ scoring_weights \in WeightTables
    /\ scored_sessions = <<>>

WeightSpec == WeightInit /\ [][ScorerNext]_vars

----------------------------------------------------------------------------
(* main.py: the validation of a schedule                                   *)

(* [key for key in schedule.keys() if key != 'summary'] *)
ScheduleDates(sched) ==
    Filter(sched.keys, {i \in DOMAIN sched.keys : sched.keys[i] # "summary"})

IsDict(value) == "keys" \in DOMAIN value

(* one day of validate_session_buffers: no gap under 30 minutes between    *)
(* neighbours of the primary sessions sorted by scheduled_start            *)
DayBuffersOk(primary) ==
    LET sorted_primary == SortByScheduledStart(primary)
    IN  \A i \in 1..(Len(sorted_primary) - 1) :
            LET current_end == sorted_primary[i].scheduled_end
                next_start  == sorted_primary[i + 1].scheduled_start
            IN  (CanParse(current_end) /\ CanParse(next_start))
                    => Minutes(next_start) - Minutes(current_end) >= 30

validate_session_buffers(sched) ==
    \A d \in Range(ScheduleDates(sched)) : DayBuffersOk(sched.val[d].primary_sessions)

validate_lunch_breaks(sched) ==
    \A d \in Range(ScheduleDates(sched)) :
        \A i \in DOMAIN sched.val[d].primary_sessions :
            LET session == sched.val[d].primary_sessions[i]
            IN  (CanParse(session.scheduled_start) /\ CanParse(session.scheduled_end))
                    => ~(/\ Minutes(session.scheduled_start) < Minutes(LUNCH_BREAK_END)
                         /\ Minutes(session.scheduled_end) > Minutes(LUNCH_BREAK_START))

(* "passed", "failed", or the AttributeError of [].items() on a day that   *)
(* had no sessions                                                         *)
validate_backup_sessions(sched) ==
    LET dates == Range(ScheduleDates(sched))
    IN  IF \E d \in dates : ~IsDict(sched.val[d].backup_sessions)
        THEN "AttributeError"
        ELSE IF \E d \in dates :
                    \E id \in DOMAIN sched.val[d].backup_sessions.val :
                        Len(sched.val[d].backup_sessions.val[id]) < MIN_BACKUP_SESSIONS
        THEN "failed"
        ELSE "passed"

----------------------------------------------------------------------------
(* Vocabulary of the properties                                            *)

(* a zero-padded HH:MM string that strptime accepts *)
WellFormedTime(t) == Len(t) = 5 /\ CanParse(t)

WellFormedTimes(list) ==
    \A i \in DOMAIN list :
        WellFormedTime(list[i].start_time) /\ WellFormedTime(list[i].end_time)

(* the dates whose DailySchedule is in the schedule *)
Days == Range(ScheduleDates(schedule))

Daily(d) == schedule.val[d]

(* the backup lists of a DailySchedule, as a set of lists *)
BackupLists(daily) ==
    IF IsDict(daily.backup_sessions)
    THEN {daily.backup_sessions.val[id] : id \in DOMAIN daily.backup_sessions.val}
    ELSE {}

(* start1 < end2 + 30 AND start2 < end1 + 30, in minutes *)
BufferedOverlap(s1, e1, s2, e2) == s1 < e2 + 30 /\ s2 < e1 + 30

(* start < lunchEnd AND end > lunchStart, in minutes (11:00 - 13:00) *)
OverlapsLunch(s, e) == s < 13 * 60 /\ e > 11 * 60

(* the locals of _create_daily_schedule hold the results of the same day *)
AfterPrimary == pc \in {"backups", "resolve", "statistics"}

AfterBackups == pc \in {"resolve", "statistics"}

AfterResolve == pc = "statistics"

----------------------------------------------------------------------------
C2_PrimaryAvoidsLunch ==
    /\ \A d \in Days :
           \A i \in DOMAIN Daily(d).primary_sessions :
               LET p == Daily(d).primary_sessions[i]
               IN  /\ (WellFormedTime(p.scheduled_start) /\ WellFormedTime(p.scheduled_end))
                          => ~OverlapsLunch(Minutes(p.scheduled_start),
                                            Minutes(p.scheduled_end))
                   /\ (WellFormedTime(p.start_time) /\ WellFormedTime(p.end_time))
                          => ~OverlapsLunch(Minutes(p.start_time), Minutes(p.end_time))
    /\ \A k \in DOMAIN time_slots :
           (WellFormedTime(time_slots[k].start_time) /\ WellFormedTime(time_slots[k].end_time))
               => ~OverlapsLunch(Minutes(time_slots[k].start_time),
                                 Minutes(time_slots[k].end_time))

(* a day with a session inside lunch and another that became primary *)
C2_Witness ==
    \E d \in Days :
        /\ Len(Daily(d).primary_sessions) >= 1
        /\ \E i \in DOMAIN sessions_by_date[d] :
               LET s == sessions_by_date[d][i]
               IN  /\ WellFormedTime(s.start_time) /\ WellFormedTime(s.end_time)
                   /\ OverlapsLunch(Minutes(s.start_time), Minutes(s.end_time))

(* C3: in every DailySchedule, no session of any slot's backup pool        *)
(* overlaps the lunch window.                                              *)
C3_BackupAvoidsLunch ==
    \A d \in Days :
        \A list \in BackupLists(Daily(d)) :
            \A i \in DOMAIN list :
                (WellFormedTime(list[i].start_time) /\ WellFormedTime(list[i].end_time))
                    => ~OverlapsLunch(Minutes(list[i].start_time), Minutes(list[i].end_time))

(* C4: the primary list of a day, as assigned and as resolved, has no two  *)
(* entries with the same session id and no two with the same slot id.      *)
UniquePrimary(p) ==
    \A i, j \in DOMAIN p :
        i # j => (p[i].session_id # p[j].session_id /\ p[i].time_slot # p[j].time_slot)

C4_OneSlotPerSession ==
    /\ UniquePrimary(primary_sessions)
    /\ UniquePrimary(resolved_schedule.primary)
    /\ \A d \in Days : UniquePrimary(Daily(d).primary_sessions)

(* two sessions share an id, both have the times of a slot, and the second *)
(* slot stays empty                                                        *)
C4_Witness ==
    /\ AfterPrimary
    /\ Len(primary_sessions) < Len(time_slots)
    /\ \E i, j \in DOMAIN sorted_sessions :
           /\ i # j
           /\ sorted_sessions[i].session_id = sorted_sessions[j].session_id
           /\ sorted_sessions[i].start_time # sorted_sessions[j].start_time
           /\ \E k, l \in DOMAIN time_slots :
                  /\ time_slots[k].start_time = sorted_sessions[i].start_time
                  /\ time_slots[l].start_time = sorted_sessions[j].start_time

(* C5: when the day's sessions have well-formed times, time_slots is       *)
(* ascending by start, its slots do not overlap pairwise                   *)
(* (s1 < e2 and s2 < e1 is false), none overlaps lunch, and there are at   *)
(* most max_sessions_per_day of them.                                      *)
C5_SlotList ==
    WellFormedTimes(sorted_sessions) =>
        /\ Len(time_slots) <= max_sessions_per_day
        /\ \A k \in 1..(Len(time_slots) - 1) :
               Minutes(time_slots[k].start_time) <= Minutes(time_slots[k + 1].start_time)
        /\ \A k, l \in DOMAIN time_slots :
               k # l => ~(/\ Minutes(time_slots[k].start_time) < Minutes(time_slots[l].end_time)
                          /\ Minutes(time_slots[l].start_time) < Minutes(time_slots[k].end_time))
        /\ \A k \in DOMAIN time_slots :
               ~OverlapsLunch(Minutes(time_slots[k].start_time),
                              Minutes(time_slots[k].end_time))

(* more ranges were accepted than max_sessions_per_day lets through *)
C5_Witness ==
    /\ pc = "primary"
    /\ Len(time_slots) = max_sessions_per_day
    /\ Len(time_slots) >= 2
    /\ Len(AcceptSlots(SessionTimes(sorted_sessions),
                       Len(SessionTimes(sorted_sessions)), date)) > Len(time_slots)

----------------------------------------------------------------------------
(* the ids used by the primary sessions of the slots before slot k *)
UsedBefore(k) ==
    {primary_sessions[n].session_id :
        n \in {m \in DOMAIN primary_sessions : primary_sessions[m].time_slot[2] < k}}

(* the sessions of the day, in input order, that slot k may take *)
Eligible(k) ==
    {i \in DOMAIN daily_sessions :
        /\ daily_sessions[i].session_id \notin UsedBefore(k)
        /\ daily_sessions[i].start_time = time_slots[k].start_time
        /\ daily_sessions[i].end_time = time_slots[k].end_time}

(* C6: for each slot, the primary session is, among the not-yet-used       *)
(* sessions with exactly the slot's times, one of maximum score, and among *)
(* those of maximum score the first of the original input; the slot is     *)
(* empty only when there is no such session.                               *)
C6_BestFirst ==
    AfterPrimary =>
        \A k \in DOMAIN time_slots :
            LET of_slot == {n \in DOMAIN primary_sessions :
                               primary_sessions[n].time_slot = time_slots[k].slot_id}
            IN  IF Eligible(k) = {} THEN of_slot = {}
                ELSE \E n \in of_slot :
                         \E i \in Eligible(k) :
                             /\ \A j \in Eligible(k) :
                                    \/ daily_sessions[i].score > daily_sessions[j].score
                                    \/ /\ daily_sessions[i].score = daily_sessions[j].score
                                       /\ i <= j
                             /\ primary_sessions[n].session_id = daily_sessions[i].session_id
                             /\ primary_sessions[n].score = daily_sessions[i].score
                             /\ primary_sessions[n].venue = daily_sessions[i].venue
                             /\ primary_sessions[n].start_time = daily_sessions[i].start_time
                             /\ primary_sessions[n].end_time = daily_sessions[i].end_time

(* a slot with a lower-scored session first in the input and two sessions  *)
(* of the same higher score after it; the earlier of the two is primary    *)
C6_Witness ==
    /\ AfterPrimary
    /\ \E k \in DOMAIN time_slots :
           \E i, j, l \in Eligible(k) :
               /\ i < j /\ j < l
               /\ daily_sessions[i].score < daily_sessions[j].score
               /\ daily_sessions[j].score = daily_sessions[l].score
               /\ daily_sessions[j].session_id # daily_sessions[l].session_id
               /\ \E n \in DOMAIN primary_sessions :
                      /\ primary_sessions[n].time_slot = time_slots[k].slot_id
                      /\ primary_sessions[n].session_id = daily_sessions[j].session_id

NonIncreasing(list) ==
    \A i \in 1..(Len(list) - 1) : list[i].backup_score >= list[i + 1].backup_score

(* a is b with some elements removed *)
RECURSIVE IsSubList(_, _)
IsSubList(a, b) ==
    IF a = <<>> THEN TRUE
    ELSE IF b = <<>> THEN FALSE
    ELSE IF Head(a) = Head(b) THEN IsSubList(Tail(a), Tail(b))
    ELSE IsSubList(a, Tail(b))

(* C7: in every DailySchedule, each slot's backup list is in non-increasing *)
(* order of backup score and has at most max(MIN_BACKUP_SESSIONS, 3)        *)
(* entries; the resolver's list is the generated list with elements         *)
(* removed, in the same order.                                              *)
C7_BackupOrder ==
    /\ \A d \in Days :
           \A list \in BackupLists(Daily(d)) :
               NonIncreasing(list) /\ Len(list) <= Max(MIN_BACKUP_SESSIONS, 3)
    /\ AfterResolve =>
           /\ DOMAIN resolved_schedule.backups.val = DOMAIN backup_sessions.val
           /\ \A id \in DOMAIN backup_sessions.val :
                  /\ NonIncreasing(resolved_schedule.backups.val[id])
                  /\ IsSubList(resolved_schedule.backups.val[id], backup_sessions.val[id])

(* a pool that lost a backup to the resolver and keeps two of different    *)
(* scores                                                                  *)
C7_Witness ==
    /\ AfterResolve
    /\ \E id \in DOMAIN backup_sessions.val :
           LET final == resolved_schedule.backups.val[id]
           IN  /\ Len(final) >= 2
               /\ Len(final) < Len(backup_sessions.val[id])
               /\ final[1].backup_score > final[2].backup_score

(* the candidates of slot k: not primary, both times within 30 minutes *)
Candidates(k) ==
    {i \in DOMAIN sorted_sessions :
        LET c == sorted_sessions[i]
        IN  /\ \A n \in DOMAIN primary_sessions :
                   primary_sessions[n].session_id # c.session_id
            /\ WellFormedTime(c.start_time) /\ WellFormedTime(c.end_time)
            /\ WellFormedTime(time_slots[k].start_time)
            /\ WellFormedTime(time_slots[k].end_time)
            /\ Abs(Minutes(c.start_time) - Minutes(time_slots[k].start_time)) <= 30
            /\ Abs(Minutes(c.end_time) - Minutes(time_slots[k].end_time)) <= 30}

(* C8: for each slot, generate_backups returns min(N, k) of the k          *)
(* candidates, N = max(MIN_BACKUP_SESSIONS, 3), best first, each a         *)
(* different candidate with its backup score, and no candidate left out    *)
(* scores more than one returned; every slot has an entry.                 *)
C8_TopBackups ==
    AfterBackups =>
        /\ DOMAIN backup_sessions.val = {time_slots[k].slot_id : k \in DOMAIN time_slots}
        /\ \A k \in DOMAIN time_slots :
               LET R == backup_sessions.val[time_slots[k].slot_id]
                   bs(i) == _calculate_backup_score(sorted_sessions[i], time_slots[k])
               IN  /\ Len(R) = Min(Max(MIN_BACKUP_SESSIONS, 3), Cardinality(Candidates(k)))
                   /\ NonIncreasing(R)
                   /\ \E f \in [DOMAIN R -> Candidates(k)] :
                          /\ \A m, n \in DOMAIN R : m # n => f[m] # f[n]
                          /\ \A n \in DOMAIN R :
                                 /\ R[n].session_id = sorted_sessions[f[n]].session_id
                                 /\ R[n].start_time = sorted_sessions[f[n]].start_time
                                 /\ R[n].end_time = sorted_sessions[f[n]].end_time
                                 /\ R[n].score = sorted_sessions[f[n]].score
                                 /\ R[n].backup_score = bs(f[n])
                          /\ \A i \in Candidates(k) \ Range(f) :
                                 \A n \in DOMAIN R : bs(i) <= R[n].backup_score

(* a slot with more than three candidates of different backup scores *)
C8_Witness ==
    /\ AfterBackups
    /\ \E k \in DOMAIN time_slots :
           LET R == backup_sessions.val[time_slots[k].slot_id]
           IN  /\ Cardinality(Candidates(k)) > 3
               /\ Len(R) = 3
               /\ R[1].backup_score > R[3].backup_score
               /\ \E i \in Candidates(k) :
                      _calculate_backup_score(sorted_sessions[i], time_slots[k])
                          < R[3].backup_score

(* C9: every slot that has at least MIN_BACKUP_SESSIONS time-compatible    *)
(* non-primary candidates has at least MIN_BACKUP_SESSIONS sessions in its *)
(* final backup pool.                                                      *)
C9_MinimumBackups ==
    AfterResolve =>
        \A k \in DOMAIN time_slots :
            Cardinality(Candidates(k)) >= MIN_BACKUP_SESSIONS
                => Len(resolved_schedule.backups.val[time_slots[k].slot_id])
                       >= MIN_BACKUP_SESSIONS

(* C10: in every DailySchedule, no session of a backup pool has a buffered *)
(* conflict (bStart < pEnd + 30 and pStart < bEnd + 30) with a primary     *)
(* session of the same day.                                                *)
C10_BackupsClearOfPrimary ==
    \A d \in Days :
        \A list \in BackupLists(Daily(d)) :
            \A i \in DOMAIN list :
                \A n \in DOMAIN Daily(d).primary_sessions :
                    LET b == list[i]
                        p == Daily(d).primary_sessions[n]
                    IN  (/\ WellFormedTime(b.start_time) /\ WellFormedTime(b.end_time)
                         /\ WellFormedTime(p.scheduled_start)
                         /\ WellFormedTime(p.scheduled_end))
                            => ~BufferedOverlap(Minutes(b.start_time), Minutes(b.end_time),
                                                Minutes(p.scheduled_start),
                                                Minutes(p.scheduled_end))

(* a day with a primary session, a backup that survived and one that the   *)
(* resolver removed                                                        *)
C10_Witness ==
    /\ pc = "done"
    /\ Len(conference_dates) = 1
    /\ \E d \in Days :
           /\ Len(Daily(d).primary_sessions) >= 1
           /\ IsDict(Daily(d).backup_sessions)
           /\ \E id \in DOMAIN Daily(d).backup_sessions.val :
                  /\ Len(Daily(d).backup_sessions.val[id]) >= 1
                  /\ Len(Daily(d).backup_sessions.val[id]) < Len(backup_sessions.val[id])

----------------------------------------------------------------------------
(* the sessions score_sessions has returned *)
Scored == IF pc = "scored" THEN Range(scored_sessions) ELSE {}

(* C11: every scored session's total score lies in [0.0, 1.0], each of its *)
(* five component scores lies in [0, 1], and the total equals              *)
(* 0.40 keyword + 0.20 level + 0.20 venue + 0.10 speaker + 0.10 uniqueness *)
(* up to the rounding to three decimals (half a thousandth)                *)
C11_WeightedTotal ==
    \A s \in Scored :
        LET b   == s.score_breakdown
            c   == b.component_scores
            sum == 400 * c.keyword_score + 200 * c.level_score + 200 * c.venue_score
                   + 100 * c.speaker_score + 100 * c.uniqueness_score
        IN  /\ s.score = b.total_score
            /\ b.total_score \in 0..1000
            /\ \A x \in {c.keyword_score, c.level_score, c.venue_score,
                         c.speaker_score, c.uniqueness_score} : x \in 0..1000
            /\ Abs(1000 * b.total_score - sum) <= 500

(* a session whose keyword, speaker and uniqueness components all reach    *)
(* their cap, the uniqueness sum going beyond it                           *)
C11_Witness ==
    /\ \E s \in Scored :
           LET c == s.score_breakdown.component_scores
           IN  /\ c.keyword_score = 1000 /\ c.speaker_score = 1000
               /\ c.uniqueness_score = 1000
               /\ Cardinality({k \in DOMAIN unique_indicators :
                      Contains(Lower(s.title), unique_indicators[k])}) > 5
               /\ s.score >= 900

(* the table entries a venue name matches *)
VenueHits(venue) ==
    {k \in DOMAIN venue_convenience_scores :
        Contains(Lower(venue), venue_convenience_scores[k][1])}

(* C12: the venue component is the table value of the entry the venue      *)
(* matches (0.0 for 'mgm grand' and 'mandalay bay'), and 0.5 only when it  *)
(* matches no entry                                                        *)
C12_VenueTable ==
    \A s \in Scored :
        LET hits == VenueHits(s.venue)
            got  == s.score_breakdown.component_scores.venue_score
        IN  /\ hits = {} => got = 500
            /\ \A k \in hits : hits = {k} => got = venue_convenience_scores[k][2]

(* C18: a session is scored only with a weight table that sums to 1.0: a   *)
(* scorer holding another table fails at construction                      *)
C18_WeightsSumToOne ==
    pc = "scored" => SumWeights(scoring_weights) = 1000

(* C13: schedule_efficiency is the number of final primary sessions of    *)
(* all dates divided by the number of conference dates, rounded to one     *)
(* decimal (in tenths here), for any number of dates >= 1                  *)
C13_Efficiency ==
    pc = "done" =>
        LET summary == schedule.val["summary"]
        IN  summary.schedule_efficiency =
                RoundHalfEven(10 * summary.total_scheduled_sessions, Len(conference_dates))

(* the sessions of the input whose date is d, in input order *)
SessionsOn(d) == Filter(sessions, {i \in DOMAIN sessions : sessions[i].date = d})

(* C14: create_schedule returns an entry for every conference date; the    *)
(* entry of a date without input sessions has no primary session, no       *)
(* backup, the three counts total, scheduled and backup at zero, and the   *)
(* lunch window in blocked_times                                           *)
C14_EmptyDay ==
    pc = "done" =>
        \A d \in Range(conference_dates) :
            /\ d \in Days
            /\ SessionsOn(d) = <<>> =>
                   /\ Daily(d).primary_sessions = <<>>
                   /\ BackupLists(Daily(d)) = {}
                   /\ ~IsDict(Daily(d).backup_sessions) =>
                          Daily(d).backup_sessions.items = <<>>
                   /\ Daily(d).statistics.total_sessions = 0
                   /\ Daily(d).statistics.scheduled_sessions = 0
                   /\ Daily(d).statistics.backup_sessions = 0
                   /\ <<LUNCH_BREAK_START, LUNCH_BREAK_END>> \in Range(Daily(d).blocked_times)

(* a returned schedule with a date that had no session next to a date that *)
(* has a primary session                                                   *)
C14_Witness ==
    /\ pc = "done"
    /\ \E d, e \in Range(conference_dates) :
           /\ SessionsOn(d) = <<>>
           /\ Daily(d).statistics.total_sessions = 0
           /\ Daily(e).primary_sessions # <<>>

(* the DailySchedule of date d computed from a list of sessions alone: the *)
(* steps of create_schedule's loop body and of _create_daily_schedule      *)
_create_daily_schedule(day_sessions, d) ==
    LET sorted   == SortByScore(day_sessions)
        slots    == _generate_time_slots(sorted, d, max_sessions_per_day)
        primary  == _schedule_primary_sessions(sorted, slots)
        backups  == generate_backups(sorted, primary, slots)
        resolved == resolve_conflicts(primary, backups, slots)
    IN  [primary_sessions |-> resolved.primary,
         backup_sessions  |-> resolved.backups,
         blocked_times    |-> blocked_times,
         time_slots       |-> slots,
         statistics       |-> _calculate_daily_statistics(day_sessions,
                                  resolved.primary, resolved.backups)]

DailyScheduleOf(day_sessions, d) ==
    IF day_sessions = <<>>
    THEN [primary_sessions |-> <<>>,
          backup_sessions  |-> [items |-> <<>>],
          blocked_times    |-> blocked_times,
          statistics       |-> [total_sessions |-> 0, scheduled_sessions |-> 0,
                                backup_sessions |-> 0]]
    ELSE _create_daily_schedule(day_sessions, d)

(* C15: the DailySchedule returned for a date is a function of the input   *)
(* sessions of that date alone (and of the configuration): it equals what  *)
(* the pipeline gives on the list of those sessions, whatever the sessions *)
(* of the other dates and whatever was computed for the dates before       *)
C15_PerDayIndependence ==
    pc = "done" => \A d \in Days : Daily(d) = DailyScheduleOf(SessionsOn(d), d)

(* the second date of a run is stored, with a primary session, after a     *)
(* first date that had sessions too, the input holding a session of a date *)
(* outside the conference                                                  *)
C15_Witness ==
    /\ pc = "done"
    /\ Len(conference_dates) = 2
    /\ conference_dates[2] \in Days
    /\ Daily(conference_dates[2]).primary_sessions # <<>>
    /\ Daily(conference_dates[1]).primary_sessions # <<>>
    /\ \E i \in DOMAIN sessions : sessions[i].date \notin Range(conference_dates)

(* the calendar order of the modelled dates *)
Calendar == <<Nov30, Dec01, Dec02>>

DateBefore(d, e) ==
    \E i, j \in DOMAIN Calendar : i < j /\ Calendar[i] = d /\ Calendar[j] = e

(* C16: the date entries of the returned schedule are in ascending date    *)
(* order, whatever the order of conference_dates                           *)
C16_AscendingDates ==
    pc = "done" =>
        LET dates == ScheduleDates(schedule)
        IN  \A i, j \in DOMAIN dates : i < j => DateBefore(dates[i], dates[j])

(* C17: no two primary sessions of a day overlap once their intervals are  *)
(* expanded by the configured buffer Config.BUFFER_MINUTES:                *)
(* start1 < end2 + B and start2 < end1 + B never both hold                 *)
C17_ConfiguredBuffer ==
    \A d \in Days :
        LET p == Daily(d).primary_sessions
        IN  \A i, j \in DOMAIN p :
                (i # j /\ WellFormedTimes(<<p[i], p[j]>>)) =>
                    ~(/\ Minutes(p[i].start_time) < Minutes(p[j].end_time) + BUFFER_MINUTES
                      /\ Minutes(p[j].start_time) < Minutes(p[i].end_time) + BUFFER_MINUTES)

(* a session with both of its times *)
Timed(session) == Truthy(session.start_time) /\ Truthy(session.end_time)

Malformed(t) == Truthy(t) /\ ~CanParse(t)

MalformedTimes(start, end) == Malformed(start) \/ Malformed(end)

(* C20: the resolver's buffered-overlap test treats a malformed time as    *)
(* 'no conflict': a primary session with a malformed time is kept, a       *)
(* primary session is dropped only for overlapping, buffer included, a     *)
(* kept session when both have well-formed times, and a backup is pruned   *)
(* only for overlapping such a kept primary session                        *)
C20_MalformedNoConflict ==
    AfterResolve =>
        LET kept    == resolved_schedule.primary
            cleared == {q \in Range(kept) :
                           CanParse(q.scheduled_start) /\ CanParse(q.scheduled_end)}
        IN  /\ \A n \in DOMAIN primary_sessions :
                   LET p == primary_sessions[n]
                   IN  /\ MalformedTimes(p.scheduled_start, p.scheduled_end)
                           => p \in Range(kept)
                       /\ p \notin Range(kept) =>
                              \E q \in cleared :
                                  BufferedOverlap(Minutes(p.scheduled_start),
                                                  Minutes(p.scheduled_end),
                                                  Minutes(q.scheduled_start),
                                                  Minutes(q.scheduled_end))
            /\ \A id \in DOMAIN backup_sessions.val :
                   \A n \in DOMAIN backup_sessions.val[id] :
                       LET b == backup_sessions.val[id][n]
                       IN  b \notin Range(resolved_schedule.backups.val[id]) =>
                               /\ CanParse(b.start_time) /\ CanParse(b.end_time)
                               /\ \E q \in cleared :
                                      BufferedOverlap(Minutes(b.start_time),
                                                      Minutes(b.end_time),
                                                      Minutes(q.scheduled_start),
                                                      Minutes(q.scheduled_end))

(* the resolver has kept a primary session whose start is malformed and a  *)
(* well-formed one, dropped another, and kept a backup it tested against   *)
(* them                                                                    *)
C20_Witness ==
    /\ AfterResolve
    /\ \E p \in Range(resolved_schedule.primary) : Malformed(p.scheduled_start)
    /\ \E p \in Range(resolved_schedule.primary) :
           CanParse(p.scheduled_start) /\ CanParse(p.scheduled_end)
    /\ Len(resolved_schedule.primary) < Len(primary_sessions)
    /\ \E id \in DOMAIN resolved_schedule.backups.val :
           resolved_schedule.backups.val[id] # <<>>

----------------------------------------------------------------------------
(* position of a primary record in the scan of the resolver: ascending     *)
(* scheduled start as strings, the order of the primary list among equals  *)
ScannedBefore(m, n) ==
    \/ StrLess(primary_sessions[m].scheduled_start, primary_sessions[n].scheduled_start)
    \/ /\ primary_sessions[m].scheduled_start = primary_sessions[n].scheduled_start
       /\ m < n

(* the buffered conflict of two primary records with well-formed times *)
PrimaryConflict(p, q) ==
    /\ WellFormedTime(p.scheduled_start) /\ WellFormedTime(p.scheduled_end)
    /\ WellFormedTime(q.scheduled_start) /\ WellFormedTime(q.scheduled_end)
    /\ BufferedOverlap(Minutes(p.scheduled_start), Minutes(p.scheduled_end),
                       Minutes(q.scheduled_start), Minutes(q.scheduled_end))

(* C21: conflict resolution is a greedy scan in ascending scheduled start: *)
(* a primary session is kept if and only if it has no buffered conflict    *)
(* with a session kept before it in the scan; a session that is not kept   *)
(* is dropped, never moved (every kept record is a record of the primary   *)
(* list, the kept list is in ascending scheduled start); so of two         *)
(* conflicting sessions the later one is dropped when the earlier one is   *)
(* kept, whatever their scores, and a session that conflicts only with     *)
(* dropped sessions is kept.                                               *)
C21_GreedyScan ==
    AfterResolve =>
        LET kept == resolved_schedule.primary
        IN  /\ Range(kept) \subseteq Range(primary_sessions)
            /\ \A i, j \in DOMAIN kept :
                   i < j => ~StrLess(kept[j].scheduled_start, kept[i].scheduled_start)
            /\ \A n \in DOMAIN primary_sessions :
                   primary_sessions[n] \in Range(kept)
                       <=> ~\E m \in DOMAIN primary_sessions :
                               /\ ScannedBefore(m, n)
                               /\ primary_sessions[m] \in Range(kept)
                               /\ PrimaryConflict(primary_sessions[n], primary_sessions[m])

(* the first of three sessions is kept, the second, which scores highest,  *)
(* is dropped for its conflict with the first, and the third, which        *)
(* conflicts only with the dropped second, is kept                         *)
C21_Witness ==
    /\ AfterResolve
    /\ \E a, b, c \in DOMAIN primary_sessions :
           LET A == primary_sessions[a]
               B == primary_sessions[b]
               C == primary_sessions[c]
           IN  /\ ScannedBefore(a, b) /\ ScannedBefore(b, c)
               /\ PrimaryConflict(A, B) /\ PrimaryConflict(B, C) /\ ~PrimaryConflict(A, C)
               /\ B.score > A.score /\ B.score > C.score
               /\ A \in Range(resolved_schedule.primary)
               /\ B \notin Range(resolved_schedule.primary)
               /\ C \in Range(resolved_schedule.primary)

(* the session a backup record was made from *)
SessionOf(b) ==
    [session_id |-> b.session_id, date |-> b.date,
     start_time |-> b.start_time, end_time |-> b.end_time,
     score |-> b.score, venue |-> b.venue, keywords_matched |-> b.keywords_matched]

(* C22: for every slot, the candidate set of the Backup Generator is       *)
(* exactly the sessions of the day whose id is not the id of a primary     *)
(* session (before conflict resolution) and whose start and end are each   *)
(* within 30 minutes of the slot's; the slot's backup list is drawn from   *)
(* that set and is all of it when it has at most three members; so a       *)
(* session with the slot's own times whose id is not a primary id is a     *)
(* candidate of the slot.                                                  *)
C22_CandidateSet ==
    AfterBackups =>
        \A k \in DOMAIN time_slots :
            LET slot == time_slots[k]
                ids  == {primary_sessions[n].session_id : n \in DOMAIN primary_sessions}
                candidate_sessions ==
                    _find_candidate_sessions(sorted_sessions, slot.start_time,
                                             slot.end_time, ids)
                pool == backup_sessions.val[slot.slot_id]
                drawn == {SessionOf(pool[n]) : n \in DOMAIN pool}
                expected == {sorted_sessions[i] : i \in Candidates(k)}
            IN  /\ candidate_sessions = Filter(sorted_sessions, Candidates(k))
                /\ drawn \subseteq expected
                /\ Cardinality(Candidates(k)) <= 3 => drawn = expected
                /\ \A i \in DOMAIN sorted_sessions :
                       (/\ sorted_sessions[i].session_id \notin ids
                        /\ sorted_sessions[i].start_time = slot.start_time
                        /\ sorted_sessions[i].end_time = slot.end_time
                        /\ WellFormedTime(slot.start_time)
                        /\ WellFormedTime(slot.end_time))
                           => sorted_sessions[i] \in Range(candidate_sessions)

(* Scenario A: the 0.8 session is the primary of its slot and the 0.6      *)
(* session with the same times is in the slot's backup list               *)
C22_Witness ==
    /\ AfterBackups
    /\ \E k \in DOMAIN time_slots :
           LET slot == time_slots[k]
               pool == backup_sessions.val[slot.slot_id]
           IN  /\ \E n \in DOMAIN primary_sessions :
                      /\ primary_sessions[n].time_slot = slot.slot_id
                      /\ primary_sessions[n].score = 800
               /\ \E n \in DOMAIN pool :
                      /\ pool[n].score = 600
                      /\ pool[n].start_time = slot.start_time
                      /\ pool[n].end_time = slot.end_time

(* C23: the Conflict Resolver only removes: the final primary list is an   *)
(* order-preserving sub-list of the assigner's primary list (every kept    *)
(* record unchanged: same session, slot id, scheduled start and end), in   *)
(* ascending scheduled start; the final backup pool has the keys of the    *)
(* generated one and each final list is an order-preserving sub-list of    *)
(* the generated list; the venue step changes nothing: the final primary   *)
(* list is the list left by the time-conflict step and                     *)
(* 'optimization_applied' is false.                                        *)
C23_OnlyRemoves ==
    AfterResolve =>
        LET kept == resolved_schedule.primary
        IN  /\ IsSubList(kept, primary_sessions)
            /\ \A i, j \in DOMAIN kept :
                   i < j => ~StrLess(kept[j].scheduled_start, kept[i].scheduled_start)
            /\ kept = _resolve_time_conflicts(primary_sessions)
            /\ resolved_schedule.backups.keys = backup_sessions.keys
            /\ DOMAIN resolved_schedule.backups.val = DOMAIN backup_sessions.val
            /\ \A id \in DOMAIN backup_sessions.val :
                   IsSubList(resolved_schedule.backups.val[id], backup_sessions.val[id])
            /\ resolved_schedule.conflicts_resolved.optimization_applied = FALSE

(* the resolver has dropped a primary session and kept another, and has    *)
(* cut a backup list down to a shorter, non-empty one                      *)
C23_Witness ==
    /\ AfterResolve
    /\ Len(resolved_schedule.primary) >= 1
    /\ Len(resolved_schedule.primary) < Len(primary_sessions)
    /\ \E id \in DOMAIN backup_sessions.val :
           /\ resolved_schedule.backups.val[id] # <<>>
           /\ Len(resolved_schedule.backups.val[id]) < Len(backup_sessions.val[id])

(* the slot of a DailySchedule has a session in the day's primary list *)
HasPrimary(daily, slot) ==
    \E n \in DOMAIN daily.primary_sessions :
        daily.primary_sessions[n].time_slot = slot.slot_id

JustStored ==
    /\ pc \in {"for_date", "done"}
    /\ idx > 1
    /\ sessions_by_date[conference_dates[idx - 1]] # <<>>

(* every primary session missing from the final primary list is in no     *)
(* final backup list, and its slot is among the slots, without a primary   *)
DroppedVanished(final_primary, final_backups, slots) ==
    \A n \in DOMAIN primary_sessions :
        LET p == primary_sessions[n]
        IN  p \notin Range(final_primary) =>
                /\ \A m \in DOMAIN final_primary :
                       /\ final_primary[m].session_id # p.session_id
                       /\ final_primary[m].time_slot # p.time_slot
                /\ \A id \in DOMAIN final_backups.val :
                       \A m \in DOMAIN final_backups.val[id] :
                           LET b == final_backups.val[id][m]
                           IN  ~(/\ b.session_id = p.session_id
                                 /\ b.start_time = p.start_time
                                 /\ b.end_time = p.end_time
                                 /\ b.score = p.score)
                /\ \E k \in DOMAIN slots :
                       /\ slots[k].slot_id = p.time_slot
                       /\ slots[k].start_time = p.scheduled_start
                       /\ slots[k].end_time = p.scheduled_end
                /\ p.time_slot \in DOMAIN final_backups.val

(* C25: a primary session dropped by the Conflict Resolver is not in the   *)
(* final primary list and not in any slot's backup list, in the resolver's *)
(* result and in the stored DailySchedule; its slot stays in time_slots,   *)
(* with its entry in the backup pool, and no primary session occupies it.  *)
C25_DroppedVanishes ==
    /\ AfterResolve =>
           DroppedVanished(resolved_schedule.primary, resolved_schedule.backups, time_slots)
    /\ JustStored =>
           LET daily == Daily(conference_dates[idx - 1])
           IN  DroppedVanished(daily.primary_sessions, daily.backup_sessions,
                               daily.time_slots)

(* a stored day with a dropped primary session whose slot has a backup     *)
C25_Witness ==
    /\ JustStored
    /\ LET daily == Daily(conference_dates[idx - 1])
       IN  \E n \in DOMAIN primary_sessions :
               /\ primary_sessions[n] \notin Range(daily.primary_sessions)
               /\ daily.backup_sessions.val[primary_sessions[n].time_slot] # <<>>
               /\ daily.primary_sessions # <<>>

(* C26: resolve_conflicts applied to its own result (the final primary     *)
(* list and the final backup pool, with the slots of the day) returns the  *)
(* same primary list in the same order and the same backup pool.           *)
C26_ResolveIdempotent ==
    AfterResolve =>
        LET again == resolve_conflicts(resolved_schedule.primary,
                                       resolved_schedule.backups, time_slots)
        IN  /\ again.primary = resolved_schedule.primary
            /\ again.backups = resolved_schedule.backups
            /\ again.conflicts_resolved = resolved_schedule.conflicts_resolved

(* the first application dropped a primary session and pruned two backups  *)
(* of one slot, and left a primary session and a backup                    *)
C26_Witness ==
    /\ AfterResolve
    /\ resolved_schedule.primary # <<>>
    /\ Len(resolved_schedule.primary) < Len(primary_sessions)
    /\ \E id \in DOMAIN backup_sessions.val :
           Len(resolved_schedule.backups.val[id]) + 2 <= Len(backup_sessions.val[id])
    /\ \E id \in DOMAIN backup_sessions.val : resolved_schedule.backups.val[id] # <<>>

(* the sessions of the day have present, pairwise distinct ids and scores  *)
(* of at least 0                                                           *)
DistinctIds ==
    /\ \A i \in DOMAIN sorted_sessions :
           sorted_sessions[i].session_id # None /\ sorted_sessions[i].score >= 0
    /\ \A i, j \in DOMAIN sorted_sessions :
           i # j => sorted_sessions[i].session_id # sorted_sessions[j].session_id

(* the primary sessions assigned to slot k *)
Occupants(k) ==
    {n \in DOMAIN primary_sessions : primary_sessions[n].time_slot = time_slots[k].slot_id}

(* C27: when the sessions of a day have present, pairwise distinct ids and *)
(* scores >= 0, the primary list before conflict resolution has exactly    *)
(* one session for every slot; in any day a slot has at most one primary   *)
(* session, and it has none only if every session with exactly its times   *)
(* has an id (or the absence of one) that an earlier slot has used.        *)
C27_EverySlotFilled ==
    AfterPrimary =>
        /\ DistinctIds =>
               /\ Len(primary_sessions) = Len(time_slots)
               /\ \A k \in DOMAIN time_slots : Cardinality(Occupants(k)) = 1
        /\ \A k \in DOMAIN time_slots :
               /\ Cardinality(Occupants(k)) <= 1
               /\ Occupants(k) = {} =>
                      \A i \in DOMAIN sorted_sessions :
                          (/\ sorted_sessions[i].start_time = time_slots[k].start_time
                           /\ sorted_sessions[i].end_time = time_slots[k].end_time)
                              => sorted_sessions[i].session_id \in UsedBefore(k)

(* a day of distinct ids with three filled slots, one of them by a session *)
(* of score 0                                                              *)
C27_Witness ==
    /\ AfterPrimary
    /\ DistinctIds
    /\ Len(time_slots) = 3
    /\ \E n \in DOMAIN primary_sessions : primary_sessions[n].score = 0

(* the slot ids of a DailySchedule; the entry of a day without sessions    *)
(* has no time_slots                                                       *)
SlotIdsOf(daily) ==
    IF "time_slots" \in DOMAIN daily
    THEN [k \in DOMAIN daily.time_slots |-> daily.time_slots[k].slot_id]
    ELSE <<>>

(* C28: for every date of the schedule, the backup pool is a mapping keyed *)
(* by slot id with exactly one entry for each slot derived for the date    *)
(* (slots whose primary was dropped included); for a date without slots or *)
(* without sessions it is the empty mapping.                               *)
C28_BackupMapping ==
    \A d \in Days :
        /\ IsDict(Daily(d).backup_sessions)
        /\ Daily(d).backup_sessions.keys = SlotIdsOf(Daily(d))
        /\ DOMAIN Daily(d).backup_sessions.val = Range(SlotIdsOf(Daily(d)))
        /\ \A i, j \in DOMAIN SlotIdsOf(Daily(d)) :
               i # j => SlotIdsOf(Daily(d))[i] # SlotIdsOf(Daily(d))[j]

(* both times are present and one of them is malformed *)
Unparsable(session) ==
    /\ Truthy(session.start_time) /\ Truthy(session.end_time)
    /\ MalformedTimes(session.start_time, session.end_time)

SameRange(a, b) == a.start_time = b.start_time /\ a.end_time = b.end_time

(* the slot list was not cut at max_sessions_per_day *)
NoCutOff == Len(time_slots) < max_sessions_per_day

(* session i of the day has a slot of its own (as many slots of its range  *)
(* as sessions of its range), is a primary session and is kept by the      *)
(* resolver                                                                *)
SlotPrimaryKept(i) ==
    LET s == sorted_sessions[i]
    IN  /\ Cardinality({k \in DOMAIN time_slots : SameRange(time_slots[k], s)})
              = Cardinality({j \in DOMAIN sorted_sessions :
                                SameRange(sorted_sessions[j], s)})
        /\ \E n \in DOMAIN primary_sessions :
               /\ SessionOf(primary_sessions[n]) = s
               /\ primary_sessions[n].scheduled_start = s.start_time
               /\ primary_sessions[n].scheduled_end = s.end_time
               /\ primary_sessions[n] \in Range(resolved_schedule.primary)

(* no backup list, generated or final, holds a session with a malformed    *)
(* time                                                                    *)
NoMalformedBackup ==
    \A id \in DOMAIN backup_sessions.val :
        /\ \A m \in DOMAIN backup_sessions.val[id] :
               ~MalformedTimes(backup_sessions.val[id][m].start_time,
                               backup_sessions.val[id][m].end_time)
        /\ \A m \in DOMAIN resolved_schedule.backups.val[id] :
               ~MalformedTimes(resolved_schedule.backups.val[id][m].start_time,
                               resolved_schedule.backups.val[id][m].end_time)

(* C29 as stated: a session with a non-empty unparsable start or end gets  *)
(* a slot of its own unless the slot list is cut at max_sessions_per_day,  *)
(* is that slot's primary session and survives conflict resolution,        *)
(* whatever other sessions the day contains; it is never a backup.         *)
C29_AsStated ==
    AfterResolve =>
        /\ NoMalformedBackup
        /\ \A i \in DOMAIN sorted_sessions :
               (Unparsable(sorted_sessions[i]) /\ NoCutOff) => SlotPrimaryKept(i)

(* C29, amended: a session with a non-empty unparsable start or end gets a *)
(* slot of its own unless the slot list is cut at max_sessions_per_day;    *)
(* when no other session of the day carries its id (sessions without an id *)
(* carry the same absent id) it is that slot's primary session and         *)
(* survives conflict resolution, whatever the times of the other sessions; *)
(* it is never a backup.                                                   *)
C29_UnparsableIsPrimary ==
    AfterResolve =>
        /\ NoMalformedBackup
        /\ \A i \in DOMAIN sorted_sessions :
               LET s == sorted_sessions[i]
               IN  (Unparsable(s) /\ NoCutOff) =>
                       /\ Cardinality({k \in DOMAIN time_slots :
                                          SameRange(time_slots[k], s)})
                              = Cardinality({j \in DOMAIN sorted_sessions :
                                                SameRange(sorted_sessions[j], s)})
                       /\ (\A j \in DOMAIN sorted_sessions :
                               j # i => sorted_sessions[j].session_id # s.session_id)
                              => SlotPrimaryKept(i)

(* a day with a session whose times are malformed and whose id is its own, *)
(* which is primary and kept, next to a sound primary session that was     *)
(* dropped and a backup that was kept                                      *)
C29_Witness ==
    /\ AfterResolve
    /\ NoCutOff
    /\ \E i \in DOMAIN sorted_sessions :
           /\ Unparsable(sorted_sessions[i])
           /\ \A j \in DOMAIN sorted_sessions :
                  j # i => sorted_sessions[j].session_id # sorted_sessions[i].session_id
           /\ SlotPrimaryKept(i)
    /\ Len(resolved_schedule.primary) < Len(primary_sessions)
    /\ \E id \in DOMAIN resolved_schedule.backups.val :
           resolved_schedule.backups.val[id] # <<>>

(* the (start, end) pair of a session or of a slot *)
RangeOf(x) == <<x.start_time, x.end_time>>

(* both ranges are well-formed and s1 < e2 and s2 < e1, in minutes *)
RangesOverlap(r, q) ==
    /\ WellFormedTime(r[1]) /\ WellFormedTime(r[2])
    /\ WellFormedTime(q[1]) /\ WellFormedTime(q[2])
    /\ Minutes(r[1]) < Minutes(q[2]) /\ Minutes(q[1]) < Minutes(r[2])

RangeInLunch(r) ==
    /\ WellFormedTime(r[1]) /\ WellFormedTime(r[2])
    /\ OverlapsLunch(Minutes(r[1]), Minutes(r[2]))

(* an accepted slot sorted before the range r, with another range, that r  *)
(* overlaps                                                                *)
OverlapsEarlierSlot(r) ==
    \E k \in DOMAIN time_slots :
        PairLess(RangeOf(time_slots[k]), r) /\ RangesOverlap(r, RangeOf(time_slots[k]))

(* the slot list is full and the range r sorts after its slots *)
BeyondCutOff(r) ==
    /\ Len(time_slots) = max_sessions_per_day
    /\ \A k \in DOMAIN time_slots : ~PairLess(r, RangeOf(time_slots[k]))

(* session i of the day is in the primary list *)
IsPrimary(i) ==
    \E n \in DOMAIN primary_sessions : SessionOf(primary_sessions[n]) = sorted_sessions[i]

(* C30: the slots of a day depend only on the (start, end) pairs of its    *)
(* sessions, never on the scores: they are the same for the sessions in    *)
(* input order with every score set to 0; they are in ascending (start,    *)
(* end) order, each is the range of a session, none overlaps lunch or an   *)
(* earlier slot, and a range of a session is missing from them only if it  *)
(* overlaps lunch, overlaps an accepted slot sorted before it, or lies     *)
(* beyond the cut at max_sessions_per_day.  A primary session has the      *)
(* range of a slot; a session whose range overlaps an accepted slot sorted *)
(* before it, or has no slot after the cut, is not primary, whatever its   *)
(* score.                                                                  *)
C30_SlotsFromRanges ==
    AfterPrimary =>
        /\ time_slots =
               _generate_time_slots(
                   [i \in DOMAIN daily_sessions |-> [daily_sessions[i] EXCEPT !.score = 0]],
                   date, max_sessions_per_day)
        /\ \A k, l \in DOMAIN time_slots :
               k < l => /\ ~PairLess(RangeOf(time_slots[l]), RangeOf(time_slots[k]))
                        /\ ~RangesOverlap(RangeOf(time_slots[k]), RangeOf(time_slots[l]))
        /\ \A k \in DOMAIN time_slots :
               /\ ~RangeInLunch(RangeOf(time_slots[k]))
               /\ \E i \in DOMAIN sorted_sessions :
                      RangeOf(sorted_sessions[i]) = RangeOf(time_slots[k])
        /\ \A i \in DOMAIN sorted_sessions :
               LET r == RangeOf(sorted_sessions[i])
                   slot == \E k \in DOMAIN time_slots : RangeOf(time_slots[k]) = r
               IN  /\ (Timed(sorted_sessions[i]) /\ ~slot)
                          => RangeInLunch(r) \/ OverlapsEarlierSlot(r) \/ BeyondCutOff(r)
                   /\ IsPrimary(i) => slot
                   /\ OverlapsEarlierSlot(r) => ~slot /\ ~IsPrimary(i)
                   /\ ~slot => ~IsPrimary(i)

(* the session with the highest score of the day overlaps an earlier       *)
(* accepted range and is not primary, while the session of that range is   *)
C30_Witness ==
    /\ AfterPrimary
    /\ \E i \in DOMAIN sorted_sessions :
           /\ \A j \in DOMAIN sorted_sessions :
                  j # i => sorted_sessions[j].score < sorted_sessions[i].score
           /\ OverlapsEarlierSlot(RangeOf(sorted_sessions[i]))
           /\ ~IsPrimary(i)
    /\ primary_sessions # <<>>

====
